---- MODULE Spec2Model ----
(***************************************************************************)
(* Verification model of the reverse-link-preview extension:               *)
(*   - the preview-generator cache (services/previewGenerator.js)          *)
(*   - the one-hour preview-context cache (context/PreviewContext)         *)
(*   - the content extraction orchestrator (ContentExtractor.extract)      *)
(*     with the fetch service, classifier and schema detector it calls     *)
(*   - the image selector (services/contentProcessing/imageProcessor.js)   *)
(* Each subsystem has its own specification over the shared variables; a   *)
(* specification leaves the variables of the other subsystems unchanged.   *)
(***************************************************************************)
EXTENDS Integers, Sequences, FiniteSets, TLC

VARIABLES
  now,        \* Date.now(), in milliseconds
  advances,   \* number of clock advances taken so far (bounded)
  cache,      \* PreviewGenerator.cache: a Map, kept as the sequence of its entries in insertion order
  lastGet,    \* what the getCached call of the last step saw and returned (NoGet after any other step)
  lastEvict,  \* the capacity eviction made by the setCached call of the last step (NoEvict otherwise)
  written,    \* history: url -> the last {preview, timestamp} pair handed to cache.set
  gen,        \* in-flight generatePreview calls: call id -> position and locals
  produced,   \* the record returned to the caller by the generator call of the last step (Null otherwise)
  ctxCache,   \* PreviewContext state.cache: url -> {data, timestamp}, or Null for an absent key
  ctxTimer,   \* the time at which the cleanup interval of PreviewProvider fires next
  ctxOrigin,  \* history: url -> the time setCurrentPreview cached the data now held for it
  ctxGet,     \* what the getCachedPreview call of the last step returned (NoCtxGet otherwise)
  ex,         \* the ContentExtractor.extract call: its position, its request and its locals
  delivered,  \* the record the extract call handed to onExtracted (Null before it does)
  imgIn,      \* the arguments of extractImportantImages: document, maxImages, baseUrl
  imgOut,     \* the list extractImportantImages returned (NoImages before the call)
  callArgs,   \* the arguments of the call under study of a stateless service (summarize, detect, ...)
  callResult, \* what that call did: NoResult before it, then its return value or its exception
  fc,         \* the fetchContent call: its position, its attempts, its waits and the time it has taken
  ui,         \* the LinkPreview component: its refs, its timers, the extractions in flight and what is displayed
  rl,         \* the background script's fetchRateLimiter and the fetches it let through
  prefs       \* chrome.storage's userPreferences and the userPreferences calls in flight

\* the state of the PreviewGenerator singleton and of the calls made on it
cacheVars == <<cache, lastGet, lastEvict, written, gen, produced>>

\* the state of the PreviewProvider
ctxVars == <<ctxCache, ctxTimer, ctxOrigin, ctxGet>>

\* the state of one ContentExtractor.extract call
extractVars == <<ex, delivered>>

\* the image selector's input and output
imgVars == <<imgIn, imgOut>>

\* one call of a stateless service
callVars == <<callArgs, callResult>>

\* one fetchContent call
fetchVars == <<fc>>

\* the LinkPreview component
uiVars == <<ui>>

\* the background script and the userPreferences service
serviceVars == <<rl, prefs>>

vars == <<now, advances, cacheVars, ctxVars, extractVars, imgVars, callVars, fetchVars, uiVars, serviceVars>>

\* what the PreviewGenerator operations leave alone
NotCache == <<ctxVars, extractVars, imgVars, callVars, fetchVars, uiVars, serviceVars>>

\* what the PreviewProvider operations leave alone
NotCtx == <<cacheVars, extractVars, imgVars, callVars, fetchVars, uiVars, serviceVars>>

\* what the extraction pipeline leaves alone
NotExtract == <<now, advances, cacheVars, ctxVars, imgVars, callVars, fetchVars, uiVars, serviceVars>>

\* what the image selector leaves alone
NotImg == <<now, advances, cacheVars, ctxVars, extractVars, callVars, fetchVars, uiVars, serviceVars>>

\* what a call of a stateless service leaves alone
NotCall == <<now, advances, cacheVars, ctxVars, extractVars, imgVars, fetchVars, uiVars, serviceVars>>

\* what a fetchContent call leaves alone
NotFetch == <<now, advances, cacheVars, ctxVars, extractVars, imgVars, callVars, uiVars, serviceVars>>

\* what the LinkPreview handlers leave alone, the PreviewProvider apart
NotUi == <<now, advances, cacheVars, extractVars, imgVars, callVars, fetchVars, serviceVars>>

\* what the rate limiter leaves alone, the clock apart
NotLimiter == <<cacheVars, ctxVars, extractVars, imgVars, callVars, fetchVars, uiVars, prefs>>

\* what the userPreferences service leaves alone
NotPrefs == <<now, advances, cacheVars, ctxVars, extractVars, imgVars, callVars, fetchVars, uiVars, rl>>

\* ---------------------------------------------------------------------------
\* Generic helpers
\* ---------------------------------------------------------------------------

\* JavaScript null / undefined
Null == [null |-> TRUE]

RECURSIVE SeqFilterOut(_, _)
\* the sequence s without its elements whose url is u
SeqFilterOut(s, u) ==
  IF s = <<>> THEN <<>>
  ELSE IF Head(s).url = u THEN SeqFilterOut(Tail(s), u)
       ELSE <<Head(s)>> \o SeqFilterOut(Tail(s), u)

Min(S) == CHOOSE x \in S : \A y \in S : x <= y

\* ---------------------------------------------------------------------------
\* Map semantics (ECMAScript Map keeps insertion order; set() on an existing
\* key replaces the value in place)
\* ---------------------------------------------------------------------------

MapHas(m, u) == \E i \in 1..Len(m) : m[i].url = u

MapGet(m, u) == m[CHOOSE i \in 1..Len(m) : m[i].url = u]

MapDelete(m, u) == SeqFilterOut(m, u)

\* Map.set that, on an existing key, keeps the old timestamp (a torn write)
MapSetTorn(m, u, preview, ts) ==
  IF MapHas(m, u)
  THEN [i \in 1..Len(m) |->
          IF m[i].url = u THEN [url |-> u, preview |-> preview, timestamp |-> m[i].timestamp]
          ELSE m[i]]
  ELSE Append(m, [url |-> u, preview |-> preview, timestamp |-> ts])

MapSet(m, u, preview, ts) ==
  IF MapHas(m, u)
  THEN [i \in 1..Len(m) |->
          IF m[i].url = u THEN [url |-> u, preview |-> preview, timestamp |-> ts]
          ELSE m[i]]
  ELSE Append(m, [url |-> u, preview |-> preview, timestamp |-> ts])

\* ---------------------------------------------------------------------------
\* PreviewGenerator: constants
\* ---------------------------------------------------------------------------

\* this.cacheTimeout = 5 * 60 * 1000
cacheTimeout == 300000

\* the size threshold in setCached
CacheLimit == 50

\* Bounds of the cache model
NumUrls == 2           \* urls 1..NumUrls are stored, overwritten and looked up
NumFresh == 2          \* urls CacheLimit+1 .. CacheLimit+NumFresh are keys new to a full cache
MaxAdvances == 2       \* clock advances per behaviour of the expiry model
MaxCapAdvances == 1    \* clock advances per behaviour of the capacity model

HotUrls == 1..NumUrls
FreshUrls == (CacheLimit + 1)..(CacheLimit + NumFresh)
CapUrls == {1} \cup FreshUrls
CacheUrls == HotUrls \cup FreshUrls

\* clock steps of the expiry model: one millisecond, or exactly the timeout
Deltas == {1, cacheTimeout}

\* clock step of the capacity model: just past the timeout
CapDeltas == {cacheTimeout + 1}

\* ---------------------------------------------------------------------------
\* PreviewGenerator: getCached / setCached / clearExpiredCache / clearCache
\* ---------------------------------------------------------------------------

\* the expiry test of getCached with >= in place of >
IsExpiredAtTimeout(entry, t) == t - entry.timestamp >= cacheTimeout

\* Date.now() - cached.timestamp > this.cacheTimeout
IsExpired(entry, t) == t - entry.timestamp > cacheTimeout

\* the value getCached returns
GetCachedResult(m, u, t) ==
  IF ~MapHas(m, u) THEN Null
  ELSE IF IsExpired(MapGet(m, u), t) THEN Null
  ELSE MapGet(m, u).preview

\* the cache after getCached (an expired entry is deleted)
GetCachedCache(m, u, t) ==
  IF MapHas(m, u) /\ IsExpired(MapGet(m, u), t) THEN MapDelete(m, u) ELSE m

\* setCached that never evicts
EvictIfOverNever(m) == m

\* if (this.cache.size > 50) delete the first key of the Map
EvictIfOver(m) == IF Len(m) > CacheLimit THEN Tail(m) ELSE m

\* setCached that writes a torn entry
SetCachedCacheTorn(m, u, preview, t) == MapSetTorn(EvictIfOver(m), u, preview, t)

SetCachedCache(m, u, preview, t) == MapSet(EvictIfOver(m), u, preview, t)

RECURSIVE DropExpired(_, _)
DropExpired(m, t) ==
  IF m = <<>> THEN <<>>
  ELSE IF IsExpired(Head(m), t) THEN DropExpired(Tail(m), t)
       ELSE <<Head(m)>> \o DropExpired(Tail(m), t)

NoGet == [called |-> FALSE, url |-> 0, present |-> FALSE, age |-> 0,
          stored |-> Null, result |-> Null]

NoEvict == [happened |-> FALSE, evictedTs |-> 0, minTs |-> 0]

\* the eviction observed when setCached runs on map m
EvictObservation(m) ==
  IF EvictIfOver(m) # m
  THEN [happened |-> TRUE, evictedTs |-> m[1].timestamp,
        minTs |-> Min({m[i].timestamp : i \in 1..Len(m)})]
  ELSE NoEvict

\* payloads stored by direct setCached calls
Payloads == {[title |-> "A"], [title |-> "B"]}

\* a cache filled by k setCached calls for urls 1..k at time 0
Prefilled(k) == [i \in 1..k |-> [url |-> i, preview |-> [title |-> "A"], timestamp |-> 0]]

WrittenOf(m) ==
  [u \in CacheUrls |->
     IF MapHas(m, u)
     THEN [preview |-> MapGet(m, u).preview, timestamp |-> MapGet(m, u).timestamp]
     ELSE Null]

NoGen == <<>>

\* ---------------------------------------------------------------------------
\* PreviewProvider: constants and initial state of the context cache
\* ---------------------------------------------------------------------------

\* const oneHour = 60 * 60 * 1000
oneHour == 3600000

\* setInterval(..., 5 * 60 * 1000)
CleanupInterval == 300000

\* the urls whose previews are shown
CtxUrls == {1, 2}

NoCtxGet == [called |-> FALSE, url |-> 0, result |-> Null, originAge |-> 0]

\* initialState.cache = {} and the interval armed at mount
InitCtxIdle ==
  /\ ctxCache = [u \in CtxUrls |-> Null]
  /\ ctxTimer = CleanupInterval
  /\ ctxOrigin = [u \in CtxUrls |-> 0]
  /\ ctxGet = NoCtxGet

\* no extraction has been requested
IdleExtraction ==
  [pc |-> "idle", urlKind |-> "other", text |-> "", attempt |-> 0,
   lastError |-> <<>>, cause |-> "none", error |-> <<>>,
   page |-> Null, contentType |-> "none", schema |-> Null,
   stage |-> "none", settled |-> "pending"]

\* the extraction pipeline before the first hover
InitExtractIdle ==
  /\ ex = IdleExtraction
  /\ delivered = Null

\* extractImportantImages has not returned yet
NoImages == [returned |-> FALSE, images |-> <<>>]

\* the image selector before it is called on anything
InitImgIdle ==
  /\ imgIn = Null
  /\ imgOut = NoImages

\* the call has not been made
NoResult == [done |-> FALSE, threw |-> FALSE, value |-> Null]

\* no stateless service is under study
InitCallIdle ==
  /\ callArgs = Null
  /\ callResult = NoResult

\* fetchContent has not been called
IdleFetch ==
  [pc |-> "idle", attempt |-> 0, attempts |-> 0, failures |-> 0,
   waits |-> <<>>, elapsed |-> 0, cause |-> "none"]

\* no fetchContent call is under study
InitFetchIdle == fc = IdleFetch

\* setCurrentPreview has not been called by an extraction
NoDelivery == [happened |-> FALSE, url |-> 0, current |-> 0, outcome |-> "none"]

\* no extract call has been started by the hover timer
NoStart == [happened |-> FALSE, url |-> 0, hovered |-> FALSE]

\* no ADD_TO_QUEUE has been dispatched
NoAdd == [happened |-> FALSE, before |-> <<>>, url |-> 0, carried |-> 0]

\* the LinkPreview component as mounted, with the provider's state it shows:
\* refs null (0 stands for null), no timer pending, an empty queue, nothing
\* displayed, no extraction in flight
\* no mouseover event waits in the debounce of the content script
NoMouseover == [pending |-> FALSE, target |-> 0]

IdleUi ==
  [currentUrl |-> 0, entered |-> {}, hoverTimer |-> 0, pendingHover |-> {},
   hideTimer |-> 0, clearTimers |-> 0, currentPreview |-> 0, loading |-> FALSE,
   over |-> 0, debounced |-> NoMouseover, currentHoveredLink |-> 0,
   isVisible |-> FALSE, queue |-> <<>>, inflight |-> [u \in CtxUrls |-> 0],
   lastDelivery |-> NoDelivery, lastHide |-> 0, lastStart |-> NoStart,
   lastAdd |-> NoAdd]

\* the LinkPreview component before any pointer event
InitUiIdle == ui = IdleUi

\* no fetchUrl message has been answered
NoAnswer == [answered |-> FALSE, admitted |-> FALSE, window |-> 0]

\* fetchRateLimiter as the background script starts: requests = new Map()
IdleLimiter == [requests |-> {}, fetched |-> <<>>, last |-> NoAnswer]

\* the background script before the first fetchUrl message
InitLimiterIdle == rl = IdleLimiter

\* the keys of the profiles: the three of defaultPreferences and a custom one
ProfileKeys == {"default", "work", "research", "custom"}

\* defaultPreferences.profiles: default is the active one
DefaultProfiles ==
  [k \in ProfileKeys |-> CASE k = "default" -> "active"
                            [] k = "custom" -> "absent"
                            [] OTHER -> "inactive"]

\* defaultPreferences, with the keys the model follows
defaultPreferences ==
  [profiles |-> DefaultProfiles, previewDelay |-> 300, theme |-> "light"]

\* chrome.storage.sync holds no userPreferences
NoStored == [present |-> FALSE, value |-> defaultPreferences]

\* an updatePreferences argument with no key: 0 and "none" stand for a key
\* the argument does not have
NoChanges == [previewDelay |-> 0, theme |-> "none"]

\* a userPreferences call that has not been made. updated is the value the
\* call is about to save
IdlePrefCall ==
  [pc |-> "idle", op |-> "none", key |-> "none", isActive |-> FALSE,
   changes |-> NoChanges, updated |-> defaultPreferences, overlapped |-> FALSE,
   outcome |-> "none"]

\* the two userPreferences calls that may be in flight together
PrefCalls == {1, 2}

\* loadPreferences has not resolved
NoLoad == [loaded |-> FALSE, value |-> defaultPreferences]

\* chrome.storage.sync.set has not just stored a value
NoSave == [landed |-> FALSE, op |-> "none"]

\* the userPreferences service on a fresh installation. deleted holds the
\* keys whose deleteProfile resolved with no createProfile resolved since,
\* begun counts the calls made
IdlePrefs ==
  [stored |-> NoStored, calls |-> [c \in PrefCalls |-> IdlePrefCall],
   deleted |-> {}, lastLoad |-> NoLoad, lastSave |-> NoSave, begun |-> 0]

\* no userPreferences call is under study
InitPrefsIdle == prefs = IdlePrefs

\* the PreviewGenerator singleton before any call
InitCacheIdle ==
  /\ cache = <<>>
  /\ lastGet = NoGet
  /\ lastEvict = NoEvict
  /\ written = WrittenOf(cache)
  /\ gen = NoGen
  /\ produced = Null

\* the seven content types of a PreviewRecord
ContentTypes == {"article", "product", "video", "social", "gallery", "default", "error"}

\* a freshly constructed PreviewGenerator
InitCache ==
  /\ now = 0
  /\ advances = 0
  /\ InitFetchIdle
  /\ InitUiIdle
  /\ InitLimiterIdle
  /\ InitPrefsIdle
  /\ cache = <<>>
  /\ lastGet = NoGet
  /\ lastEvict = NoEvict
  /\ written = WrittenOf(cache)
  /\ gen = NoGen
  /\ produced = Null
  /\ InitCtxIdle
  /\ InitExtractIdle
  /\ InitImgIdle
  /\ InitCallIdle

\* a PreviewGenerator whose cache was filled by setCached up to, or one short
\* of, the size threshold
InitCapacity ==
  /\ now = 0
  /\ advances = 0
  /\ InitFetchIdle
  /\ InitUiIdle
  /\ InitLimiterIdle
  /\ InitPrefsIdle
  /\ \E k \in {CacheLimit - 1, CacheLimit} : cache = Prefilled(k)
  /\ lastGet = NoGet
  /\ lastEvict = NoEvict
  /\ written = WrittenOf(cache)
  /\ gen = NoGen
  /\ produced = Null
  /\ InitCtxIdle
  /\ InitExtractIdle
  /\ InitImgIdle
  /\ InitCallIdle

SetCached(u, p) ==
  /\ UNCHANGED NotCache
  /\ cache' = SetCachedCache(cache, u, p, now)
  /\ lastEvict' = EvictObservation(cache)
  /\ written' = [written EXCEPT ![u] = [preview |-> p, timestamp |-> now]]
  /\ lastGet' = NoGet
  /\ UNCHANGED <<now, advances, gen, produced>>

GetCached(u) ==
  /\ UNCHANGED NotCache
  /\ lastGet' = [called |-> TRUE, url |-> u,
                 present |-> MapHas(cache, u),
                 age |-> IF MapHas(cache, u) THEN now - MapGet(cache, u).timestamp ELSE 0,
                 stored |-> IF MapHas(cache, u) THEN written[u].preview ELSE Null,
                 result |-> GetCachedResult(cache, u, now)]
  /\ cache' = GetCachedCache(cache, u, now)
  /\ lastEvict' = NoEvict
  /\ UNCHANGED <<now, advances, written, gen, produced>>

ClearExpiredCache ==
  /\ UNCHANGED NotCache
  /\ cache' = DropExpired(cache, now)
  /\ lastGet' = NoGet
  /\ lastEvict' = NoEvict
  /\ UNCHANGED <<now, advances, written, gen, produced>>

ClearCache ==
  /\ UNCHANGED NotCache
  /\ cache' = <<>>
  /\ lastGet' = NoGet
  /\ lastEvict' = NoEvict
  /\ UNCHANGED <<now, advances, written, gen, produced>>

\* the wall clock moves on between two calls
Advance(d, max) ==
  /\ advances < max
  /\ now' = now + d
  /\ advances' = advances + 1
  /\ lastGet' = NoGet
  /\ lastEvict' = NoEvict
  /\ ctxGet' = NoCtxGet
  /\ UNCHANGED <<cache, written, gen, produced, ctxCache, ctxTimer, ctxOrigin, extractVars, imgVars, callVars, fetchVars, uiVars, serviceVars>>

NextCache ==
  \/ \E u \in HotUrls, p \in Payloads : SetCached(u, p)
  \/ \E u \in HotUrls : GetCached(u)
  \/ ClearExpiredCache
  \/ ClearCache
  \/ \E d \in Deltas : Advance(d, MaxAdvances)

\* expiry: a cache that starts empty
SpecCache == InitCache /\ [][NextCache]_vars

NextCapacity ==
  \/ \E u \in CapUrls : SetCached(u, [title |-> "B"])
  \/ \E u \in CapUrls : GetCached(u)
  \/ ClearExpiredCache
  \/ \E d \in CapDeltas : Advance(d, MaxCapAdvances)

\* capacity: a cache that starts at the size threshold
SpecCapacity == InitCapacity /\ [][NextCapacity]_vars

\* ---------------------------------------------------------------------------
\* PreviewGenerator: generatePreview and its helpers
\* ---------------------------------------------------------------------------

\* Bounds of the generator model
MaxGenAdvances == 1    \* clock advances per behaviour of the generator model

\* the two generatePreview calls that may be in flight together
Calls == {1, 2}
\* the url both calls preview (the claims are about one key)
GenUrls == {1}

\* clock steps of the generator model: one millisecond, or just past the timeout
GenDeltas == {1, cacheTimeout + 1}

\* extractedData: hasUrl is FALSE for a missing url; title names the caller;
\* contentType is what the orchestrator detected; throws says that a property
\* read inside the try block (an accessor of extractedData) raises
GenInputs ==
  [hasUrl : BOOLEAN, url : GenUrls, title : Calls,
   contentType : {"article", "error"}, throws : BOOLEAN, onProgressUpdate : {FALSE}]

\* extractedData of the callers that follow the progress of the preview
ProgressInputs ==
  [hasUrl : {TRUE}, url : GenUrls, title : Calls,
   contentType : {"article"}, throws : BOOLEAN, onProgressUpdate : BOOLEAN]

\* setTimeout(() => extractedData.onProgressUpdate({status, ...}), delay), when
\* onProgressUpdate is a function
ProgressTimers(data, status, delay, t) ==
  IF data.onProgressUpdate THEN {[status |-> status, due |-> t + delay]} ELSE {}

\* generateBasicPreview: contentType is data.contentType || 'article'
generateBasicPreview(data, t) ==
  [url |-> data.url, title |-> data.title, contentType |-> data.contentType,
   created |-> t, status |-> "basic", error |-> FALSE]

\* enhanceWithMedia: a copy of the preview with status 'media'
enhanceWithMedia(preview, data) == [preview EXCEPT !.status = "media"]

\* addEnrichments: a copy of the preview with status 'complete'
addEnrichments(preview, data) == [preview EXCEPT !.status = "complete"]

\* generateFallbackPreview
generateFallbackPreview(data, t) ==
  [url |-> data.url, title |-> data.title, contentType |-> "unknown",
   created |-> t, status |-> "error", error |-> TRUE]

\* timers: the setTimeout calls of the progress updates that have not fired;
\* log: what the caller that gave onProgressUpdate has received, in order
IdleCall ==
  [pc |-> "idle", data |-> Null, preview |-> Null, overlapped |-> FALSE,
   timers |-> {}, log |-> <<>>]

\* a freshly constructed PreviewGenerator with no call in flight
InitGen ==
  /\ now = 0
  /\ advances = 0
  /\ InitFetchIdle
  /\ InitUiIdle
  /\ InitLimiterIdle
  /\ InitPrefsIdle
  /\ cache = <<>>
  /\ lastGet = NoGet
  /\ lastEvict = NoEvict
  /\ written = WrittenOf(cache)
  /\ gen = [c \in Calls |-> IdleCall]
  /\ produced = Null
  /\ InitCtxIdle
  /\ InitExtractIdle
  /\ InitImgIdle
  /\ InitCallIdle

\* another call for the same url is suspended at an await
InFlight(c, u) ==
  \E d \in Calls \ {c} : gen[d].pc \in {"awaitMedia", "awaitEnrich"} /\ gen[d].data.url = u

\* generatePreview, from the call to its first await (or to its return)
GenStart(c, data) ==
  /\ UNCHANGED NotCache
  /\ gen[c].pc = "idle"
  /\ gen[c].timers = {}
  /\ lastGet' = NoGet
  /\ lastEvict' = NoEvict
  /\ UNCHANGED <<now, advances, written>>
  /\ IF ~data.hasUrl
     THEN \* throw new Error('Invalid extracted data provided'): the promise rejects
          /\ gen' = [gen EXCEPT ![c] = [IdleCall EXCEPT !.pc = "rejected"]]
          /\ produced' = Null
          /\ UNCHANGED cache
     ELSE /\ cache' = GetCachedCache(cache, data.url, now)
          /\ IF GetCachedResult(cache, data.url, now) # Null
             THEN /\ gen' = [gen EXCEPT ![c] = [IdleCall EXCEPT !.pc = "done", !.data = data,
                                                 !.preview = GetCachedResult(cache, data.url, now)]]
                  /\ produced' = GetCachedResult(cache, data.url, now)
             ELSE IF data.throws
             THEN /\ gen' = [gen EXCEPT ![c] = [IdleCall EXCEPT !.pc = "done", !.data = data,
                                                 !.preview = generateFallbackPreview(data, now)]]
                  /\ produced' = generateFallbackPreview(data, now)
             ELSE /\ gen' = [gen EXCEPT ![c] =
                       [pc |-> "awaitMedia", data |-> data,
                        preview |-> enhanceWithMedia(generateBasicPreview(data, now), data),
                        overlapped |-> InFlight(c, data.url),
                        timers |-> ProgressTimers(data, "basic", 10, now),
                        log |-> <<>>]]
                  /\ produced' = Null

\* generatePreview resumes after `await this.enhanceWithMedia(...)`
GenResumeMedia(c) ==
  /\ UNCHANGED NotCache
  /\ gen[c].pc = "awaitMedia"
  /\ gen' = [gen EXCEPT ![c].pc = "awaitEnrich",
                        ![c].preview = addEnrichments(gen[c].preview, gen[c].data),
                        ![c].timers = @ \cup ProgressTimers(gen[c].data, "media", 20, now)]
  /\ lastGet' = NoGet
  /\ lastEvict' = NoEvict
  /\ produced' = Null
  /\ UNCHANGED <<now, advances, cache, written>>

\* generatePreview resumes after `await this.addEnrichments(...)`: setCached, return
GenResumeEnrich(c) ==
  /\ UNCHANGED NotCache
  /\ gen[c].pc = "awaitEnrich"
  /\ cache' = SetCachedCache(cache, gen[c].data.url, gen[c].preview, now)
  /\ lastEvict' = EvictObservation(cache)
  /\ written' = [written EXCEPT ![gen[c].data.url] =
                    [preview |-> gen[c].preview, timestamp |-> now]]
  /\ gen' = [gen EXCEPT ![c].pc = "done",
                        ![c].log = IF gen[c].data.onProgressUpdate
                                   THEN Append(@, "resolved") ELSE @]
  /\ produced' = gen[c].preview
  /\ lastGet' = NoGet
  /\ UNCHANGED <<now, advances>>

\* the caller has taken the result (or the rejection): the call id is free again
GenSettle(c) ==
  /\ UNCHANGED NotCache
  /\ gen[c].pc \in {"done", "rejected"}
  /\ gen' = [gen EXCEPT ![c] = [IdleCall EXCEPT !.timers = gen[c].timers,
                                                  !.log = gen[c].log]]
  /\ lastGet' = NoGet
  /\ lastEvict' = NoEvict
  /\ produced' = Null
  /\ UNCHANGED <<now, advances, cache, written>>

\* a direct call of the public method generateFallbackPreview
GenerateFallbackPreview(data) ==
  /\ UNCHANGED NotCache
  /\ produced' = generateFallbackPreview(data, now)
  /\ lastGet' = NoGet
  /\ lastEvict' = NoEvict
  /\ UNCHANGED <<now, advances, cache, written, gen>>

NextGen ==
  \/ \E c \in Calls, data \in GenInputs : data.title = c /\ GenStart(c, data)
  \/ \E c \in Calls : GenResumeMedia(c)
  \/ \E c \in Calls : GenResumeEnrich(c)
  \/ \E c \in Calls : GenSettle(c)
  \/ \E data \in GenInputs : data.hasUrl /\ ~data.throws /\ GenerateFallbackPreview(data)
  \/ \E d \in GenDeltas : Advance(d, MaxGenAdvances)

\* generatePreview calls interleaving at their awaits
SpecGen == InitGen /\ [][NextGen]_vars

\* a continuation of some call waits in the microtask queue: enhanceWithMedia
\* and addEnrichments await nothing, so their promises are settled when
\* generatePreview awaits them
MicrotaskPending == \E c \in Calls : gen[c].pc \in {"awaitMedia", "awaitEnrich"}

\* a timer of a progress update fires: timers run when no microtask is left,
\* the earliest first
ProgressTimerFires(c) ==
  /\ UNCHANGED NotCache
  /\ ~MicrotaskPending
  /\ \E timer \in gen[c].timers :
        /\ \A d \in Calls : \A other \in gen[d].timers : timer.due <= other.due
        /\ gen' = [gen EXCEPT ![c].timers = @ \ {timer},
                              ![c].log = Append(@, timer.status)]
  /\ lastGet' = NoGet
  /\ lastEvict' = NoEvict
  /\ produced' = Null
  /\ UNCHANGED <<now, advances, cache, written>>

NextProgress ==
  \/ \E c \in Calls, data \in ProgressInputs : data.title = c /\ GenStart(c, data)
  \/ \E c \in Calls : GenResumeMedia(c)
  \/ \E c \in Calls : GenResumeEnrich(c)
  \/ \E c \in Calls : GenSettle(c)
  \/ \E c \in Calls : ProgressTimerFires(c)
  \/ \E d \in GenDeltas : Advance(d, MaxGenAdvances)

\* generatePreview calls with the timers of their progress updates
SpecProgress == InitGen /\ [][NextProgress]_vars

\* ---------------------------------------------------------------------------
\* PreviewProvider: the one-hour context cache and its periodic cleanup
\* ---------------------------------------------------------------------------

\* Bound of the context-cache model
MaxCtxAdvances == 4    \* clock advances per behaviour

\* clock steps: one millisecond, one cleanup period, one period short of the hour
CtxDeltas == {1, CleanupInterval, oneHour - CleanupInterval}

\* now - entry.timestamp < oneHour
CtxFresh(entry, t) == t - entry.timestamp < oneHour

\* previewReducer, case 'UPDATE_CACHE': the entry is stamped Date.now()
UpdateCache(c, u, data, t) == [c EXCEPT ![u] = [data |-> data, timestamp |-> t]]

\* previewReducer, case 'CLEAR_CACHE'
ClearedCtxCache == [u \in CtxUrls |-> Null]

\* the interval callback finds an entry to drop
CleanupHasChanges(c, t) == \E u \in CtxUrls : c[u] # Null /\ ~CtxFresh(c[u], t)

\* the interval callback: CLEAR_CACHE, then UPDATE_CACHE for every surviving entry
CleanedCache(c, t) ==
  [u \in CtxUrls |->
     IF c[u] # Null /\ CtxFresh(c[u], t)
     THEN UpdateCache(ClearedCtxCache, u, c[u].data, t)[u]
     ELSE Null]

\* the value getCachedPreview returns
GetCachedPreviewResult(c, u, t) ==
  IF c[u] = Null THEN Null
  ELSE IF CtxFresh(c[u], t) THEN c[u].data
  ELSE Null

\* setInterval fires every CleanupInterval after the effect last ran
CleanupDue(t) == t >= ctxTimer /\ (t - ctxTimer) % CleanupInterval = 0

\* the last firing of the interval strictly before time t (ctxTimer - CleanupInterval if none)
LastTickBefore(t) ==
  IF t <= ctxTimer THEN ctxTimer - CleanupInterval
  ELSE ctxTimer + ((t - 1 - ctxTimer) \div CleanupInterval) * CleanupInterval

\* setCurrentPreview(previewData): SET_CURRENT_PREVIEW, then UPDATE_CACHE; the
\* effect that depends on state.cache re-arms the interval
SetCurrentPreview(u) ==
  /\ ctxCache' = UpdateCache(ctxCache, u, [url |-> u], now)
  /\ ctxOrigin' = [ctxOrigin EXCEPT ![u] = now]
  /\ ctxTimer' = now + CleanupInterval
  /\ ctxGet' = NoCtxGet
  /\ UNCHANGED <<now, advances, NotCtx>>

\* getCachedPreview(url)
GetCachedPreview(u) ==
  /\ ctxGet' = [called |-> TRUE, url |-> u,
                result |-> GetCachedPreviewResult(ctxCache, u, now),
                originAge |-> now - ctxOrigin[u]]
  /\ UNCHANGED <<now, advances, ctxCache, ctxTimer, ctxOrigin, NotCtx>>

\* the setInterval callback of the auto-cleanup effect
CleanupTick ==
  /\ CleanupDue(now)
  /\ ctxCache' = IF CleanupHasChanges(ctxCache, now)
                 THEN CleanedCache(ctxCache, now)
                 ELSE ctxCache
  /\ ctxTimer' = now + CleanupInterval
  /\ ctxGet' = NoCtxGet
  /\ UNCHANGED <<now, advances, ctxOrigin, NotCtx>>

\* clearCache(): CLEAR_CACHE
ClearCtxCache ==
  /\ ctxCache' = ClearedCtxCache
  /\ ctxTimer' = now + CleanupInterval
  /\ ctxGet' = NoCtxGet
  /\ UNCHANGED <<now, advances, ctxOrigin, NotCtx>>

\* time passes; the interval callback runs at each of its firing times, so the
\* clock does not pass a firing that would change the cache
CtxAdvance(d) ==
  /\ ~(CleanupDue(now) /\ CleanupHasChanges(ctxCache, now))
  /\ LastTickBefore(now + d) > now => ~CleanupHasChanges(ctxCache, LastTickBefore(now + d))
  /\ Advance(d, MaxCtxAdvances)

\* a freshly mounted PreviewProvider
InitCtx ==
  /\ now = 0
  /\ advances = 0
  /\ InitFetchIdle
  /\ InitUiIdle
  /\ InitLimiterIdle
  /\ InitPrefsIdle
  /\ InitCacheIdle
  /\ InitCtxIdle
  /\ InitExtractIdle
  /\ InitImgIdle
  /\ InitCallIdle

NextCtx ==
  \/ \E u \in CtxUrls : SetCurrentPreview(u)
  \/ \E u \in CtxUrls : GetCachedPreview(u)
  \/ CleanupTick
  \/ ClearCtxCache
  \/ \E d \in CtxDeltas : CtxAdvance(d)

SpecCtx == InitCtx /\ [][NextCtx]_vars

\* ---------------------------------------------------------------------------
\* Error messages: a message is the sequence of its words and punctuation marks
\* ---------------------------------------------------------------------------

\* String.prototype.includes: pat occurs in msg as a contiguous run
Includes(msg, pat) ==
  \E i \in 0..(Len(msg) - Len(pat)) :
    \A k \in 1..Len(pat) : msg[i + k] = pat[k]

MsgContextInvalidated == <<"Extension", "context", "invalidated">>
MsgReceivingEnd == <<"receiving", "end", "does", "not", "exist">>
MsgPortClosed == <<"message", "port", "closed">>
MsgExtensionReloaded ==
  <<"Extension", "was", "reloaded", ".", "Please", "refresh", "the", "page", "to",
    "continue", "using", "link", "previews", ".">>
MsgRequestTimeout == <<"Request", "timeout">>
MsgInvalidResponse == <<"Invalid", "response", "received">>
MsgEmptyContent == <<"Empty", "content", "received", "from", "URL">>
MsgInvalidUrl == <<"Invalid", "URL">>
MsgRateLimit == <<"Rate", "limit", "exceeded", ".", "Please", "try", "again", "later", ".">>
MsgHttp(status) == <<"HTTP", status>>
\* the message of the TypeError the browser's fetch rejects with when the request is blocked
MsgBrowserFetchFailed == <<"Failed", "to", "fetch">>
\* the TypeError of calling a property that is not a function
MsgNotAFunction(object, method) == <<object, ".", method, "is", "not", "a", "function">>
\* the TypeError of a property read on null
MsgNullRead == <<"Cannot", "read", "properties", "of", "null">>

\* fetchContent's outer catch: `Failed to fetch content: ${error.message}`
FailedToFetchContent(msg) == <<"Failed", "to", "fetch", "content", ":">> \o msg

\* the user-facing messages of the extract catch block
UserMsgGeneric == "Unable to load preview for this link."
UserMsgReloaded == "The extension was updated or reloaded. Please refresh this page to continue using link previews."
UserMsgMixedContent == "Cannot load HTTP content from HTTPS page due to browser security policies."
UserMsgBlocked == "This website blocks external preview requests for security reasons."
UserMsgTimeout == "Preview request timed out. The website may be slow to respond."
UserMsgNetwork == "Network connection issue. Please check your internet connection."
UserMsgNotFound == "The requested page could not be found."
UserMsgForbidden == "Access to this content is restricted or forbidden."
UserMsgServerError == "The server encountered an error. Please try again later."

\* ---------------------------------------------------------------------------
\* The background fetch handler and the fetch service
\* ---------------------------------------------------------------------------

\* what a failed attempt of the retry loop can end with
AttemptFailures ==
  {"timeout", "context", "invalid", "invalidUrl", "rateLimit",
   "http404", "http403", "http500", "blocked"}

\* the message of the Error an attempt rejects with
AttemptError(outcome) ==
  CASE outcome = "timeout" -> MsgRequestTimeout
    [] outcome = "context" -> MsgContextInvalidated
    [] outcome = "invalid" -> MsgInvalidResponse
    [] outcome = "invalidUrl" -> MsgInvalidUrl
    [] outcome = "rateLimit" -> MsgRateLimit
    [] outcome = "http404" -> MsgHttp("404")
    [] outcome = "http403" -> MsgHttp("403")
    [] outcome = "http500" -> MsgHttp("500")
    [] outcome = "blocked" -> MsgBrowserFetchFailed

\* for (let attempt = 1; attempt <= 3; attempt++)
MaxAttempts == 3

\* lastError names a dead extension context
IsContextError(msg) ==
  \/ Includes(msg, MsgContextInvalidated)
  \/ Includes(msg, MsgReceivingEnd)
  \/ Includes(msg, MsgPortClosed)

\* what fetchContent throws once every attempt has failed: the fallback is
\* reached through `this`, which an arrow function of the object literal does
\* not bind, so the call throws and the inner catch replaces the error
ExhaustedError(lastError) ==
  IF IsContextError(lastError) THEN MsgExtensionReloaded ELSE lastError

\* ---------------------------------------------------------------------------
\* The classifier and the schema detector
\* ---------------------------------------------------------------------------

\* Bound of the page model
MaxBlocks == 2    \* JSON-LD script elements per page

\* a JSON-LD script element: text that does not parse, or an object with @type
Malformed == [parses |-> FALSE, type |-> "none", price |-> "undefined"]
ProductBlock == [parses |-> TRUE, type |-> "Product", price |-> "19.99"]
ArticleBlock == [parses |-> TRUE, type |-> "Article", price |-> "undefined"]
Blocks == {Malformed, ProductBlock, ArticleBlock}

RECURSIVE SeqsUpTo(_, _)
SeqsUpTo(S, n) ==
  IF n = 0 THEN {<<>>}
  ELSE LET shorter == SeqsUpTo(S, n - 1)
       IN shorter \cup {Append(q, x) : q \in {r \in shorter : Len(r) = n - 1}, x \in S}

\* what the structure predicates of the classifier look for in the DOM
StructureKinds == {"article", "product", "gallery", "video", "text"}

\* what the URL predicates of the classifier recognise
UrlKinds == {"video", "social", "ecommerce", "other"}

\* a body of whitespace only
BlankPage == [blank |-> TRUE, jsonld |-> <<>>, structure |-> {}]

\* the bodies a response can carry: whitespace only, or markup
Pages ==
  {BlankPage} \cup
  [blank : {FALSE}, jsonld : SeqsUpTo(Blocks, MaxBlocks), structure : SUBSET StructureKinds]

ArticleTypes == {"Article", "NewsArticle", "BlogPosting", "ScholarlyArticle", "TechArticle"}
ProductTypes == {"Product", "Offer", "ProductModel"}

\* if (errorCount > 5) break
MaxSchemaErrors == 5

\* the loop of hasArticleSchema / hasProductSchema over the script elements
RECURSIVE HasSchemaOf(_, _, _)
HasSchemaOf(blocks, types, errorCount) ==
  IF blocks = <<>> THEN FALSE
  ELSE IF ~Head(blocks).parses
       THEN IF errorCount + 1 > MaxSchemaErrors THEN FALSE
            ELSE HasSchemaOf(Tail(blocks), types, errorCount + 1)
       ELSE IF Head(blocks).type \in types THEN TRUE
            ELSE HasSchemaOf(Tail(blocks), types, errorCount)

hasArticleSchema(page) == HasSchemaOf(page.jsonld, ArticleTypes, 0)
hasProductSchema(page) == HasSchemaOf(page.jsonld, ProductTypes, 0)

\* a truthy value that is not a Document: its querySelectorAll is not a function
NotADocument == [notDocument |-> TRUE]

\* the documents detect can be handed: none, a non-document, or a page
DetectDocs == {Null, NotADocument} \cup {pg \in Pages : ~pg.blank}

\* the URLs detect can be handed: the four kinds of the extraction requests,
\* URLs that several URL predicates recognise (youtube.com/product/1,
\* reddit.com/shop/1, netflix.com, which contains x.com), no URL, and a
\* truthy value that is not a string
DetectUrls == UrlKinds \cup {"videoShop", "socialShop", "videoSocial", "null", "notString"}

\* isVideoSite(url), isSocialSite(url), isEcommerceSite(url)
isVideoSite(url) == url \in {"video", "videoShop", "videoSocial"}
isSocialSite(url) == url \in {"social", "socialShop", "videoSocial"}
isEcommerceSite(url) == url \in {"ecommerce", "videoShop", "socialShop"}

\* a value returned, an exception thrown
Returned(v) == [threw |-> FALSE, value |-> v]
Thrown == [threw |-> TRUE, value |-> "TypeError"]

\* the rules with the product rule tested before the article rule
DetectRulesProductFirst(doc, url) ==
  IF url = "notString" THEN Thrown
  ELSE IF isVideoSite(url) THEN Returned("video")
  ELSE IF isSocialSite(url) THEN Returned("social")
  ELSE IF isEcommerceSite(url) THEN Returned("product")
  ELSE IF doc = NotADocument THEN Thrown
  ELSE IF hasProductSchema(doc) \/ "product" \in doc.structure THEN Returned("product")
  ELSE IF hasArticleSchema(doc) \/ "article" \in doc.structure THEN Returned("article")
  ELSE IF "gallery" \in doc.structure THEN Returned("gallery")
  ELSE IF "video" \in doc.structure THEN Returned("video")
  ELSE IF "text" \in doc.structure THEN Returned("article")
  ELSE Returned("default")

\* the body of detect's try block: url.toLowerCase() throws on a non-string,
\* dom.querySelectorAll() on a non-document
DetectRules(doc, url) ==
  IF url = "notString" THEN Thrown
  ELSE IF isVideoSite(url) THEN Returned("video")
  ELSE IF isSocialSite(url) THEN Returned("social")
  ELSE IF isEcommerceSite(url) THEN Returned("product")
  ELSE IF doc = NotADocument THEN Thrown
  ELSE IF hasArticleSchema(doc) \/ "article" \in doc.structure THEN Returned("article")
  ELSE IF hasProductSchema(doc) \/ "product" \in doc.structure THEN Returned("product")
  ELSE IF "gallery" \in doc.structure THEN Returned("gallery")
  ELSE IF "video" \in doc.structure THEN Returned("video")
  ELSE IF "text" \in doc.structure THEN Returned("article")
  ELSE Returned("default")

\* a catch block that lets the exception go on to the caller
DetectRethrows(outcome) == outcome

\* catch (error) { return 'default'; }
DetectCatch(outcome) == IF outcome.threw THEN Returned("default") ELSE outcome

\* detect(dom, url), with what it returns or throws
DetectCall(doc, url) ==
  IF doc = Null \/ url = "null" THEN Returned("default")
  ELSE DetectCatch(DetectRules(doc, url))

\* contentTypeDetector.detect(dom, url)
detect(page, urlKind) == DetectCall(page, urlKind).value

\* what detect can return
DetectedTypes == {"article", "product", "gallery", "video", "social", "default"}

\* schemaDetector.extractJsonLdSchema: the first script element that parses
RECURSIVE extractJsonLdSchema(_)
extractJsonLdSchema(blocks) ==
  IF blocks = <<>> THEN Null
  ELSE IF Head(blocks).parses THEN Head(blocks)
  ELSE extractJsonLdSchema(Tail(blocks))

\* schemaDetector.extractSchema(dom); the pages of the model carry no microdata or RDFa
extractSchema(page) == extractJsonLdSchema(page.jsonld)

\* a document and a URL are at hand
InitDetect ==
  /\ now = 0
  /\ advances = 0
  /\ InitFetchIdle
  /\ InitUiIdle
  /\ InitLimiterIdle
  /\ InitPrefsIdle
  /\ InitCacheIdle
  /\ InitCtxIdle
  /\ InitExtractIdle
  /\ InitImgIdle
  /\ callArgs \in [doc : DetectDocs, url : DetectUrls]
  /\ callResult = NoResult

\* the call of detect
Detect ==
  /\ ~callResult.done
  /\ LET outcome == DetectCall(callArgs.doc, callArgs.url)
     IN callResult' = [done |-> TRUE, threw |-> outcome.threw, value |-> outcome.value]
  /\ UNCHANGED <<callArgs, NotCall>>

NextDetect == Detect

SpecDetect == InitDetect /\ [][NextDetect]_vars

\* ---------------------------------------------------------------------------
\* ContentExtractor.extract
\* ---------------------------------------------------------------------------

\* the link texts of a request: none, or some text
LinkTexts == {"", "Read more"}

\* the methods the imageProcessor object defines
ImageProcessorMethods ==
  {"extractImportantImages", "extractGalleryImages", "calculateImageScore",
   "extractCaption", "isValidImageUrl", "resolveImageUrl"}

\* the imageProcessor method each branch of the switch calls
BranchImageMethod(contentType) ==
  CASE contentType = "product" -> "extractProductImages"
    [] contentType = "gallery" -> "extractGalleryImages"
    [] contentType = "video" -> "none"
    [] OTHER -> "extractImportantImages"

\* extractTitle(dom): the pages of the model carry neither og:title nor <title>
extractTitle(page) == "Untitled Page"

\* the price processProduct reads: schema.offers?.price, else the DOM fallback,
\* which finds nothing on the pages of the model
ProductPrice(schema) ==
  IF schema # Null /\ schema.type = "Product" THEN schema.price ELSE "undefined"

\* the switch on contentType: the message of the error the branch throws
\* (<<>> if it returns); domThrows stands for a DOM helper of the branch
\* that throws on this document
BranchError(contentType, domThrows) ==
  LET method == BranchImageMethod(contentType)
  IN IF method # "none" /\ method \notin ImageProcessorMethods
     THEN MsgNotAFunction("imageProcessor", method)
     ELSE IF domThrows THEN MsgNullRead ELSE <<>>

\* the record a branch of the switch returns
AssembledRecord(e, page, contentType, schema) ==
  [url |-> e.urlKind, contentType |-> contentType,
   title |-> IF e.text # "" THEN e.text ELSE extractTitle(page),
   description |-> "summary",
   price |-> IF contentType = "product" THEN ProductPrice(schema) ELSE "undefined",
   error |-> <<>>]

\* the if / else-if chain of the catch block
UserMessage(msg) ==
  IF Includes(msg, MsgContextInvalidated) \/ Includes(msg, <<"Extension", "was", "reloaded">>)
    THEN UserMsgReloaded
  ELSE IF Includes(msg, <<"Mixed", "content", "blocked">>) THEN UserMsgMixedContent
  ELSE IF Includes(msg, <<"CORS">>) \/ Includes(msg, <<"Failed", "to", "fetch">>)
    THEN UserMsgBlocked
  ELSE IF Includes(msg, <<"timeout">>) \/ Includes(msg, <<"Request", "timeout">>)
    THEN UserMsgTimeout
  ELSE IF Includes(msg, <<"Network", "error">>) \/ Includes(msg, <<"net::">>)
    THEN UserMsgNetwork
  ELSE IF Includes(msg, <<"404">>) \/ Includes(msg, <<"Not", "Found">>) THEN UserMsgNotFound
  ELSE IF Includes(msg, <<"403">>) \/ Includes(msg, <<"Forbidden">>) THEN UserMsgForbidden
  ELSE IF Includes(msg, <<"500">>) \/ Includes(msg, <<"Server", "Error">>)
    THEN UserMsgServerError
  ELSE UserMsgGeneric

\* the title of the error record
ErrorTitle(e, msg) ==
  IF Includes(msg, MsgContextInvalidated) \/ Includes(msg, <<"Extension", "was", "reloaded">>)
    THEN "Extension Reloaded"
  ELSE IF Includes(msg, <<"Mixed", "content", "blocked">>) THEN "Security Blocked"
  ELSE IF e.text # "" THEN e.text
  ELSE "Preview unavailable"

\* the record the catch block hands to onExtracted
ErrorRecord(e, msg) ==
  [url |-> e.urlKind, contentType |-> "error", title |-> ErrorTitle(e, msg),
   description |-> UserMessage(msg), price |-> "undefined", error |-> msg]

\* a catch block that lets the error go on to the caller
CatchRethrows(e, msg) ==
  [settled |-> "rejected", record |-> Null]

\* catch (error) { ... onExtracted({...contentType: 'error'...}) }
CatchDelivers(e, msg) ==
  [settled |-> "resolved", record |-> ErrorRecord(e, msg)]

\* extract(url, text, linkElement) is called; fetchContent starts with the context check
ExtractStart(urlKind, text) ==
  /\ ex.pc \in {"idle", "done"}
  /\ ex' = [IdleExtraction EXCEPT !.pc = "ping", !.urlKind = urlKind, !.text = text]
  /\ delivered' = Null
  /\ UNCHANGED NotExtract

\* the context check and the ping of the background script settle
FetchPing(alive) ==
  /\ ex.pc = "ping"
  /\ ex' = IF alive
           THEN [ex EXCEPT !.pc = "attempt", !.attempt = 1]
           ELSE [ex EXCEPT !.pc = "fetchFailed", !.cause = "context",
                           !.error = FailedToFetchContent(MsgContextInvalidated)]
  /\ UNCHANGED <<delivered, NotExtract>>

\* an attempt of the retry loop resolves with the content of the page:
\* fetchContent returns it, and its locals are gone
FetchAttemptOk(page) ==
  /\ ex.pc = "attempt"
  /\ ex' = [ex EXCEPT !.pc = "fetched", !.page = page, !.stage = "fetched",
                      !.attempt = 0, !.lastError = <<>>, !.cause = "none"]
  /\ UNCHANGED <<delivered, NotExtract>>

\* an attempt of the retry loop rejects: retry after a delay, or give up
FetchAttemptFail(outcome) ==
  /\ ex.pc = "attempt"
  /\ ex' = IF ex.attempt < MaxAttempts
           THEN [ex EXCEPT !.pc = "backoff", !.lastError = AttemptError(outcome),
                           !.cause = outcome]
           ELSE [ex EXCEPT !.pc = "fetchFailed", !.lastError = AttemptError(outcome),
                           !.cause = outcome,
                           !.error = FailedToFetchContent(ExhaustedError(AttemptError(outcome)))]
  /\ UNCHANGED <<delivered, NotExtract>>

\* the delay before the next attempt has passed
FetchBackoff ==
  /\ ex.pc = "backoff"
  /\ ex' = [ex EXCEPT !.pc = "attempt", !.attempt = @ + 1]
  /\ UNCHANGED <<delivered, NotExtract>>

\* fetchContent rejected: extract resumes in its catch block
ExtractCatch ==
  /\ ex.pc = "fetchFailed"
  /\ LET c == CatchDelivers(ex, ex.error)
     IN /\ ex' = [ex EXCEPT !.pc = "done", !.stage = "errored", !.settled = c.settled]
        /\ delivered' = c.record
  /\ UNCHANGED NotExtract

\* fetchContent resolved: the rest of the try block runs, and the catch block
\* if a step of it throws
ExtractProcess(domThrows) ==
  /\ ex.pc = "fetched"
  /\ LET page == ex.page
         contentType == detect(page, ex.urlKind)
         schema == extractSchema(page)
         branchError == BranchError(contentType, domThrows)
         thrown == IF page.blank THEN MsgEmptyContent ELSE branchError
         c == CatchDelivers(ex, thrown)
     IN IF thrown = <<>>
        THEN /\ ex' = [ex EXCEPT !.pc = "done", !.contentType = contentType,
                                 !.schema = schema, !.stage = "assembled",
                                 !.settled = "resolved"]
             /\ delivered' = AssembledRecord(ex, page, contentType, schema)
        ELSE /\ ex' = [ex EXCEPT !.pc = "done", !.error = thrown,
                                 !.contentType = IF page.blank THEN "none" ELSE contentType,
                                 !.schema = IF page.blank THEN Null ELSE schema,
                                 !.stage = "errored", !.settled = c.settled]
             /\ delivered' = c.record
  /\ UNCHANGED NotExtract

\* the content script before the first hover
InitExtract ==
  /\ now = 0
  /\ advances = 0
  /\ InitFetchIdle
  /\ InitUiIdle
  /\ InitLimiterIdle
  /\ InitPrefsIdle
  /\ InitCacheIdle
  /\ InitCtxIdle
  /\ InitExtractIdle
  /\ InitImgIdle
  /\ InitCallIdle

NextExtract ==
  \/ \E k \in UrlKinds, t \in LinkTexts : ExtractStart(k, t)
  \/ \E alive \in BOOLEAN : FetchPing(alive)
  \/ \E page \in Pages : FetchAttemptOk(page)
  \/ \E o \in AttemptFailures : FetchAttemptFail(o)
  \/ FetchBackoff
  \/ ExtractCatch
  \/ \E domThrows \in BOOLEAN : ExtractProcess(domThrows)

SpecExtract == InitExtract /\ [][NextExtract]_vars

\* ---------------------------------------------------------------------------
\* imageProcessor: the image selector
\* ---------------------------------------------------------------------------

\* Bound of the document model
MaxElems == 3    \* image-bearing elements per document

\* an absolute URL on the page's own origin with an image extension: https://site/p.png
AbsSrc(p) == [kind |-> "abs", path |-> p, long |-> FALSE, svg |-> FALSE]
\* a root-relative URL: /p.png
RelSrc(p) == [kind |-> "rel", path |-> p, long |-> FALSE, svg |-> FALSE]
\* a data: URL, of more than 100 characters or not, of an SVG image or not
DataSrc(long, svg) == [kind |-> "data", path |-> 0, long |-> long, svg |-> svg]

\* the src / content attribute values of the model's documents
Srcs == {AbsSrc(1), RelSrc(1), AbsSrc(2), DataSrc(FALSE, FALSE), DataSrc(TRUE, TRUE)}

\* the baseUrl argument: absent, or a page of the origin the absolute URLs are on
BaseUrls == {"none", "https://site/page"}

\* the default of the maxImages parameter
DefaultMaxImages == 5

\* the maxImages argument
MaxImagesArgs == {0, 1, 2, DefaultMaxImages}

\* <meta property="og:image" content=src>
MetaElem(src) ==
  [tag |-> "meta", src |-> src, alt |-> FALSE, size |-> "none", container |-> "none"]

\* <img src=... alt="text"> outside the content containers
AltImg(src) ==
  [tag |-> "img", src |-> src, alt |-> TRUE, size |-> "none", container |-> "none"]

\* <img src=... width="10" height="10">
TinyImg(src) ==
  [tag |-> "img", src |-> src, alt |-> FALSE, size |-> "tiny", container |-> "none"]

\* <article><img src=...></article>
ArticleImg(src) ==
  [tag |-> "img", src |-> src, alt |-> FALSE, size |-> "none", container |-> "article"]

Elems ==
  {MetaElem(x) : x \in Srcs} \cup {AltImg(x) : x \in Srcs}
    \cup {TinyImg(x) : x \in Srcs} \cup {ArticleImg(x) : x \in Srcs}

\* the documents, as the sequence of their image-bearing elements in document order
Docs == SeqsUpTo(Elems, MaxElems)

ImgInputs == [doc : Docs, maxImages : MaxImagesArgs, baseUrl : BaseUrls]

\* isValidImageUrl(url), its tests in the order of the code
isValidImageUrl(src) ==
  IF src.kind = "data" THEN src.long
  ELSE IF src.kind = "data" /\ src.svg THEN FALSE
  ELSE IF src.kind = "rel" THEN TRUE
  ELSE TRUE

\* resolveImageUrl(imageUrl, baseUrl)
resolveImageUrl(src, baseUrl) ==
  IF src.kind = "abs" THEN src
  ELSE IF src.kind = "data" THEN src
  ELSE IF baseUrl = "none" THEN src
  ELSE AbsSrc(src.path)

\* calculateImageScore(img), for the attributes the model's elements carry
calculateImageScore(el) ==
  (IF el.alt THEN 10 ELSE 0)
  + (IF el.size = "large" THEN 30 ELSE IF el.size = "tiny" THEN 10 - 30 ELSE 0)
  + (IF el.container \in {"article", "post"} THEN 15 ELSE 0)

\* the elements of seq with the given tag, in document order
RECURSIVE SelectElems(_, _)
SelectElems(seq, tag) ==
  IF seq = <<>> THEN <<>>
  ELSE IF Head(seq).tag = tag THEN <<Head(seq)>> \o SelectElems(Tail(seq), tag)
  ELSE SelectElems(Tail(seq), tag)

\* the elements `article img[src]` selects, in document order
RECURSIVE SelectArticleImgs(_)
SelectArticleImgs(seq) ==
  IF seq = <<>> THEN <<>>
  ELSE IF Head(seq).tag = "img" /\ Head(seq).container = "article"
       THEN <<Head(seq)>> \o SelectArticleImgs(Tail(seq))
  ELSE SelectArticleImgs(Tail(seq))

\* the elements the priority selectors visit, selector by selector:
\* meta[property="og:image"], then article img[src]
PriorityCandidates(doc) == SelectElems(doc, "meta") \o SelectArticleImgs(doc)

\* the loop over the priority selectors: st is {images, seen, returned}
RECURSIVE PriorityPhase(_, _, _, _)
PriorityPhase(cands, st, maxImages, baseUrl) ==
  IF cands = <<>> \/ st.returned THEN st
  ELSE LET el == Head(cands)
           resolved == resolveImageUrl(el.src, baseUrl)
       IN IF isValidImageUrl(el.src) /\ resolved \notin st.seen
          THEN LET images == Append(st.images, [src |-> resolved, priority |-> TRUE])
               IN PriorityPhase(Tail(cands),
                                [images |-> images, seen |-> st.seen \cup {resolved},
                                 returned |-> Len(images) >= maxImages],
                                maxImages, baseUrl)
          ELSE PriorityPhase(Tail(cands), st, maxImages, baseUrl)

\* the loop that fills scoredImages: seenUrls holds the priority phase's URLs only
RECURSIVE ScoredImages(_, _, _)
ScoredImages(imgs, seen, baseUrl) ==
  IF imgs = <<>> THEN <<>>
  ELSE LET el == Head(imgs)
           resolved == resolveImageUrl(el.src, baseUrl)
           rest == ScoredImages(Tail(imgs), seen, baseUrl)
       IN IF ~isValidImageUrl(el.src) THEN rest
          ELSE IF resolved \in seen THEN rest
          ELSE IF calculateImageScore(el) > 0
               THEN <<[src |-> resolved, score |-> calculateImageScore(el)]>> \o rest
          ELSE rest

\* x placed behind every element of the sorted seq whose score is not lower
RECURSIVE InsertByScore(_, _)
InsertByScore(seq, x) ==
  IF seq = <<>> THEN <<x>>
  ELSE IF Head(seq).score >= x.score THEN <<Head(seq)>> \o InsertByScore(Tail(seq), x)
  ELSE <<x>> \o seq

\* scoredImages.sort((a, b) => b.score - a.score): stable, descending
RECURSIVE SortByScore(_, _)
SortByScore(seq, sorted) ==
  IF seq = <<>> THEN sorted
  ELSE SortByScore(Tail(seq), InsertByScore(sorted, Head(seq)))

\* the loop that appends the scored images until maxImages is reached
RECURSIVE AppendScored(_, _, _)
AppendScored(images, scored, maxImages) ==
  IF scored = <<>> \/ Len(images) >= maxImages THEN images
  ELSE AppendScored(Append(images, [src |-> Head(scored).src, priority |-> FALSE]),
                    Tail(scored), maxImages)

\* extractImportantImages(dom, maxImages, baseUrl)
extractImportantImages(doc, maxImages, baseUrl) ==
  LET first == PriorityPhase(PriorityCandidates(doc),
                             [images |-> <<>>, seen |-> {}, returned |-> FALSE],
                             maxImages, baseUrl)
  IN IF first.returned THEN first.images
     ELSE IF Len(first.images) < maxImages
          THEN AppendScored(first.images,
                            SortByScore(ScoredImages(SelectElems(doc, "img"), first.seen, baseUrl), <<>>),
                            maxImages)
          ELSE first.images

\* a document, a limit and a base URL are at hand
InitImg ==
  /\ now = 0
  /\ advances = 0
  /\ InitFetchIdle
  /\ InitUiIdle
  /\ InitLimiterIdle
  /\ InitPrefsIdle
  /\ InitCacheIdle
  /\ InitCtxIdle
  /\ InitExtractIdle
  /\ imgIn \in ImgInputs
  /\ imgOut = NoImages
  /\ InitCallIdle

\* the call of extractImportantImages
ExtractImportantImages ==
  /\ ~imgOut.returned
  /\ imgOut' = [returned |-> TRUE,
                images |-> extractImportantImages(imgIn.doc, imgIn.maxImages, imgIn.baseUrl)]
  /\ UNCHANGED <<imgIn, NotImg>>

NextImg == ExtractImportantImages

SpecImg == InitImg /\ [][NextImg]_vars

\* ---------------------------------------------------------------------------
\* textSummarizer: strings are sequences of characters; "W" is a capital
\* letter, "w" a small letter
\* ---------------------------------------------------------------------------

\* Bound of the text model
MaxSentences == 3    \* sentences per input text

RECURSIVE Repeat(_, _)
Repeat(c, n) == IF n <= 0 THEN <<>> ELSE <<c>> \o Repeat(c, n - 1)

\* a word of len letters
WordChars(len, capital) == <<IF capital THEN "W" ELSE "w">> \o Repeat("w", len - 1)

\* the words of the given lengths, separated by single spaces
RECURSIVE WordsChars(_, _)
WordsChars(lens, capital) ==
  IF lens = <<>> THEN <<>>
  ELSE WordChars(Head(lens), capital)
       \o (IF Len(lens) > 1 THEN <<" ">> \o WordsChars(Tail(lens), FALSE) ELSE <<>>)

\* a sentence: a capitalised first word, the other words, a full stop
SentenceChars(lens) == WordsChars(lens, TRUE) \o <<".">>

\* a text: its sentences separated by single spaces
RECURSIVE TextChars(_)
TextChars(sents) ==
  IF sents = <<>> THEN <<>>
  ELSE SentenceChars(Head(sents))
       \o (IF Len(sents) > 1 THEN <<" ">> \o TextChars(Tail(sents)) ELSE <<>>)

\* the sentences of the input texts, by the lengths of their words
SentenceShapes == {<<2, 2>>, <<2, 2, 2, 2>>, <<3, 2, 2, 3>>, <<4, 3, 2, 2>>, <<14>>}

\* the input texts
Texts == {TextChars(q) : q \in SeqsUpTo(SentenceShapes, MaxSentences)}

\* the maxChars and maxSentences arguments
MaxCharsArgs == {8, 14, 20, 30}
MaxSentencesArgs == {1, 2, 3}

SummarizeInputs == [text : Texts, maxSentences : MaxSentencesArgs, maxChars : MaxCharsArgs]

\* String.prototype.lastIndexOf: the 0-based position of the last occurrence, or -1
LastIndexOf(str, pat) ==
  LET hits == {i \in 0..(Len(str) - Len(pat)) : \A k \in 1..Len(pat) : str[i + k] = pat[k]}
  IN IF hits = {} THEN 0 - 1 ELSE CHOOSE i \in hits : \A j \in hits : j <= i

\* String.prototype.substr(0, n)
Substr0(str, n) == SubSeq(str, 1, IF n > Len(str) THEN Len(str) ELSE n)

\* the greatest element of a non-empty set of integers
Max(S) == CHOOSE x \in S : \A y \in S : y <= x

\* truncateToFit(text, maxChars)
truncateToFit(text, maxChars) ==
  IF text = <<>> THEN <<>>
  ELSE IF Len(text) <= maxChars THEN text
  ELSE LET truncated == Substr0(text, maxChars)
           pos == LastIndexOf(truncated, <<".", " ">>)
           bestBreak == IF 2 * pos > maxChars THEN pos ELSE 0 - 1
           lastSpace == LastIndexOf(truncated, <<" ">>)
       IN IF bestBreak > 0 THEN Substr0(truncated, bestBreak + 1)
          ELSE IF 2 * lastSpace > maxChars THEN Substr0(truncated, lastSpace) \o <<".", ".", ".">>
          ELSE truncated \o <<".", ".", ".">>

\* text.replace(/\s+/g, ' '): runs of spaces collapse to one space
RECURSIVE CollapseSpaces(_)
CollapseSpaces(str) ==
  IF Len(str) < 2 THEN str
  ELSE IF str[1] = " " /\ str[2] = " " THEN CollapseSpaces(Tail(str))
  ELSE <<Head(str)>> \o CollapseSpaces(Tail(str))

\* String.prototype.trim
RECURSIVE Trim(_)
Trim(str) ==
  IF str = <<>> THEN str
  ELSE IF Head(str) = " " THEN Trim(Tail(str))
  ELSE IF str[Len(str)] = " " THEN Trim(SubSeq(str, 1, Len(str) - 1))
  ELSE str

\* position i ends a run of sentence punctuation that white space and a
\* capital letter follow: /([.!?]+)\s+(?=[A-Z])/
IsSentenceBreak(str, i) ==
  /\ i + 2 <= Len(str)
  /\ str[i] = "."
  /\ str[i + 1] = " "
  /\ str[i + 2] = "W"

\* text.split(sentenceRegex) and the loop that rejoins each part with its punctuation
RECURSIVE SplitSentences(_, _, _)
SplitSentences(str, start, i) ==
  IF start > Len(str) THEN <<>>
  ELSE IF i > Len(str) THEN <<Trim(SubSeq(str, start, Len(str)))>>
  ELSE IF IsSentenceBreak(str, i)
       THEN (IF Trim(SubSeq(str, start, i - 1)) # <<>>
             THEN <<Trim(SubSeq(str, start, i))>> ELSE <<>>)
            \o SplitSentences(str, i + 2, i + 2)
  ELSE SplitSentences(str, start, i + 1)

\* s.split(/\s+/).length
WordCount(str) == Cardinality({i \in 1..Len(str) : str[i] = " "}) + 1

\* the elements of seq that are sentences: s.length > 10 && s.split(/\s+/).length > 3
RECURSIVE KeepSentences(_)
KeepSentences(seq) ==
  IF seq = <<>> THEN <<>>
  ELSE IF Len(Head(seq)) > 10 /\ WordCount(Head(seq)) > 3
       THEN <<Head(seq)>> \o KeepSentences(Tail(seq))
  ELSE KeepSentences(Tail(seq))

\* splitIntoSentences(text); the texts of the model hold no abbreviations
splitIntoSentences(text) ==
  IF text = <<>> THEN <<>>
  ELSE LET normal == Trim(CollapseSpaces(text))
       IN KeepSentences(SplitSentences(normal, 1, 1))

\* toLowerCase().replace(/[^\w\s'-]/g, '').split(/\s+/).filter(w => w.length > 0):
\* the words of str, each as the sequence of its letters in lower case
RECURSIVE WordsOf(_, _)
WordsOf(str, word) ==
  IF str = <<>> THEN (IF word = <<>> THEN <<>> ELSE <<word>>)
  ELSE IF Head(str) = " "
       THEN (IF word = <<>> THEN <<>> ELSE <<word>>) \o WordsOf(Tail(str), <<>>)
  ELSE IF Head(str) = "." THEN WordsOf(Tail(str), word)
  ELSE WordsOf(Tail(str), Append(word, "w"))

\* the words calculateWordFrequency and scoreSentence count: not a stop word
\* (the model's words are none) and of three letters or more
IsContentWord(word) == Len(word) >= 3

\* calculateWordFrequency(text), before the division by maxFreq: word -> occurrences
WordOccurrences(text, word) ==
  LET words == WordsOf(text, <<>>)
  IN Cardinality({i \in 1..Len(words) : words[i] = word})

\* Math.max(...Object.values(frequency), 1)
MaxFrequency(text) ==
  LET words == WordsOf(text, <<>>)
  IN Max({1} \cup {WordOccurrences(text, words[i]) : i \in {j \in 1..Len(words) : IsContentWord(words[j])}})

RECURSIVE SumOccurrences(_, _)
SumOccurrences(text, words) ==
  IF words = <<>> THEN 0
  ELSE (IF IsContentWord(Head(words)) THEN WordOccurrences(text, Head(words)) ELSE 0)
       + SumOccurrences(text, Tail(words))

\* the position factor of scoreSentence, times ten
PositionFactor(index, total) ==
  IF index = 0 THEN 15
  ELSE IF 5 * index < total THEN 13
  ELSE IF index = total - 1 THEN 12
  ELSE 10

\* scoreSentence(sentence, wordFrequency, index, totalSentences), as the
\* fraction num / den; the model's sentences hold no key phrase and no '?'
scoreSentence(sentence, text, index, total) ==
  LET words == WordsOf(sentence, <<>>)
      scored == Cardinality({i \in 1..Len(words) : IsContentWord(words[i])})
  IN IF Len(words) < 3 \/ scored = 0 THEN [num |-> 0, den |-> 1]
     ELSE [num |-> SumOccurrences(text, words) * PositionFactor(index, total),
           den |-> MaxFrequency(text) * scored * 10]

\* sentences.map((sentence, index) => ({ sentence, score, index }))
ScoredSentences(sentences, text) ==
  [i \in 1..Len(sentences) |->
     [sentence |-> sentences[i], index |-> i - 1,
      score |-> scoreSentence(sentences[i], text, i - 1, Len(sentences))]]

\* a.score >= b.score
ScoreAtLeast(a, b) == a.score.num * b.score.den >= b.score.num * a.score.den

\* x placed behind every element of the sorted seq whose score is not lower
RECURSIVE InsertSentenceByScore(_, _)
InsertSentenceByScore(seq, x) ==
  IF seq = <<>> THEN <<x>>
  ELSE IF ScoreAtLeast(Head(seq), x) THEN <<Head(seq)>> \o InsertSentenceByScore(Tail(seq), x)
  ELSE <<x>> \o seq

\* scoredSentences.sort((a, b) => b.score - a.score)
RECURSIVE SortSentencesByScore(_, _)
SortSentencesByScore(seq, sorted) ==
  IF seq = <<>> THEN sorted
  ELSE SortSentencesByScore(Tail(seq), InsertSentenceByScore(sorted, Head(seq)))

\* topSentences.sort((a, b) => a.index - b.index), then map to the sentence and join(' ')
RECURSIVE JoinByIndex(_, _, _)
JoinByIndex(top, index, total) ==
  IF index >= total THEN <<>>
  ELSE LET here == {i \in 1..Len(top) : top[i].index = index}
           rest == JoinByIndex(top, index + 1, total)
       IN IF here = {} THEN rest
          ELSE top[CHOOSE i \in here : TRUE].sentence
               \o (IF rest = <<>> THEN <<>> ELSE <<" ">> \o rest)

\* summarize(text, maxSentences, maxChars)
summarize(text, maxSentences, maxChars) ==
  IF text = <<>> THEN <<>>
  ELSE LET sentences == splitIntoSentences(text)
       IN IF Len(sentences) = 0 THEN truncateToFit(text, maxChars)
          ELSE IF Len(sentences) <= 2 THEN sentences[1]
          ELSE LET sorted == SortSentencesByScore(ScoredSentences(sentences, text), <<>>)
                   top == SubSeq(sorted, 1, IF maxSentences < Len(sentences)
                                            THEN maxSentences ELSE Len(sentences))
                   summary == JoinByIndex(top, 0, Len(sentences))
               IN IF Len(summary) > maxChars THEN truncateToFit(summary, maxChars)
                  ELSE summary

\* a text and the two limits are at hand
InitSummarize ==
  /\ now = 0
  /\ advances = 0
  /\ InitFetchIdle
  /\ InitUiIdle
  /\ InitLimiterIdle
  /\ InitPrefsIdle
  /\ InitCacheIdle
  /\ InitCtxIdle
  /\ InitExtractIdle
  /\ InitImgIdle
  /\ callArgs \in SummarizeInputs
  /\ callResult = NoResult

\* the call of summarize
Summarize ==
  /\ ~callResult.done
  /\ callResult' = [done |-> TRUE, threw |-> FALSE,
                    value |-> summarize(callArgs.text, callArgs.maxSentences, callArgs.maxChars)]
  /\ UNCHANGED <<callArgs, NotCall>>

NextSummarize == Summarize

SpecSummarize == InitSummarize /\ [][NextSummarize]_vars

\* ---------------------------------------------------------------------------
\* readabilityService.parseArticle
\* ---------------------------------------------------------------------------

\* the value undefined
Undefined == [undefined |-> TRUE]

\* where the main content of a document is found: by one of the content
\* selectors, by scoring, or nowhere (the body is used)
MainContents == {"selector", "scored", "none"}

\* where the title of a document is found
TitleSources == {"og", "twitter", "title", "h1", "none"}

\* the word counts of the text elements of a document
WordCounts == {0, 150, 450}

\* the documents parseArticle can be handed: a document is told by where its
\* main content and its title are, whether its content element can be cloned
\* (cloneNode), and the number of words of its text elements
ArticleDocs ==
  [main : MainContents, cloneable : BOOLEAN, title : TitleSources, words : WordCounts]

\* parseArticle's arguments: no document (null, undefined) or a document
ParseArticleDocs == {Null, Undefined} \cup ArticleDocs

\* average reading speed of calculateReadingTime
wordsPerMinute == 200

\* Math.ceil(wordCount / wordsPerMinute)
calculateReadingTime(words) == (words + wordsPerMinute - 1) \div wordsPerMinute

\* extractTitle(dom): the first title source of the document
extractTitleOf(doc) == IF doc.title = "none" THEN "Untitled Article" ELSE doc.title

\* the record of parseArticle's catch block
DegradedArticle ==
  [title |-> "Untitled Article", content |-> "null", textContent |-> 0,
   excerpt |-> 0, readingTime |-> 0, wordCount |-> 0]

\* length of generateExcerpt, in words: the text when short, else a cut of it
generateExcerpt(words) == IF words <= 150 THEN words ELSE 150

\* the body of parseArticle's try block: cleanContent clones the content
\* element outside any try of its own
ParseArticleBody(doc) ==
  IF ~doc.cloneable THEN [threw |-> TRUE, value |-> [message |-> "cloneNode is not a function"]]
  ELSE Returned([title |-> extractTitleOf(doc), content |-> doc.main,
                 textContent |-> doc.words, excerpt |-> generateExcerpt(doc.words),
                 readingTime |-> calculateReadingTime(doc.words),
                 wordCount |-> doc.words])

\* catch (error) { return { title: 'Untitled Article', ... } }
ParseArticleCatch(outcome) ==
  IF outcome.threw THEN Returned(DegradedArticle) ELSE outcome

\* parseArticle(dom), with what it returns or throws
ParseArticleCall(doc) ==
  IF doc \in {Null, Undefined}
  THEN [threw |-> TRUE, value |-> [message |-> "No DOM provided to parseArticle"]]
  ELSE ParseArticleCatch(ParseArticleBody(doc))

\* a document, or none, is at hand
InitParseArticle ==
  /\ now = 0
  /\ advances = 0
  /\ InitFetchIdle
  /\ InitUiIdle
  /\ InitLimiterIdle
  /\ InitPrefsIdle
  /\ InitCacheIdle
  /\ InitCtxIdle
  /\ InitExtractIdle
  /\ InitImgIdle
  /\ callArgs \in [doc : ParseArticleDocs]
  /\ callResult = NoResult

\* the call of parseArticle
ParseArticle ==
  /\ ~callResult.done
  /\ LET outcome == ParseArticleCall(callArgs.doc)
     IN callResult' = [done |-> TRUE, threw |-> outcome.threw, value |-> outcome.value]
  /\ UNCHANGED <<callArgs, NotCall>>

NextParseArticle == ParseArticle

SpecParseArticle == InitParseArticle /\ [][NextParseArticle]_vars

\* ---------------------------------------------------------------------------
\* processArticle: the reading time and word count of the article record
\* ---------------------------------------------------------------------------

\* Bounds of the article texts
MaxMinutes == 2      \* the texts have about 0..MaxMinutes times 200 plain words
MaxUrlTokens == 2    \* tokens of the text that are urls
MaxCutTokens == 2    \* tokens of the text such as a/b

\* the default speed of readingTimeEstimator.estimate
estimateSpeed == 200

\* article.textContent as extractText leaves it: tokens separated by single
\* spaces, no space at either end. plain counts the tokens made of letters and
\* digits, urls the tokens that are urls, cut the tokens with one character
\* outside [\w\s'-.,!?;:] between two words; the empty text has no token
ArticleTexts ==
  [plain : {n \in 0..(MaxMinutes * estimateSpeed + 1) :
              \E k \in 0..MaxMinutes : n \in {k * estimateSpeed - 1, k * estimateSpeed,
                                              k * estimateSpeed + 1}},
   urls : 0..MaxUrlTokens,
   cut : 0..MaxCutTokens]

\* the number of whitespace-separated tokens of the text
Tokens(text) == text.plain + text.urls + text.cut

\* fullText.split(/\s+/).length: the empty string splits into one empty string
SplitLength(text) == IF Tokens(text) = 0 THEN 1 ELSE Tokens(text)

\* readingTimeEstimator.processText, then countWords: a url becomes a space,
\* a character outside the class becomes a space and cuts its token in two
EstimatorWordCount(text) == text.plain + 2 * text.cut

\* readingTimeEstimator.estimate(text).minutes: 0 for no text, else
\* Math.floor(wordCount / wpm), no image and no code block being given
EstimateMinutes(text) ==
  IF Tokens(text) = 0 THEN 0 ELSE EstimatorWordCount(text) \div estimateSpeed

\* the two fields processArticle derives from article.textContent
processArticle(text) ==
  [readingTime |-> EstimateMinutes(text), wordCount |-> SplitLength(text)]

\* the text of an article is at hand
InitProcessArticle ==
  /\ now = 0
  /\ advances = 0
  /\ InitFetchIdle
  /\ InitUiIdle
  /\ InitLimiterIdle
  /\ InitPrefsIdle
  /\ InitCacheIdle
  /\ InitCtxIdle
  /\ InitExtractIdle
  /\ InitImgIdle
  /\ callArgs \in [text : ArticleTexts]
  /\ callResult = NoResult

\* the call of processArticle
ProcessArticle ==
  /\ ~callResult.done
  /\ callResult' = [done |-> TRUE, threw |-> FALSE, value |-> processArticle(callArgs.text)]
  /\ UNCHANGED <<callArgs, NotCall>>

NextProcessArticle == ProcessArticle

SpecProcessArticle == InitProcessArticle /\ [][NextProcessArticle]_vars

\* ---------------------------------------------------------------------------
\* The scans of the JSON-LD script elements
\* ---------------------------------------------------------------------------

\* Bound of the scanned pages
MaxScripts == 7    \* JSON-LD script elements of a scanned page

\* the script elements of a scanned page, in document order
ScriptLists == SeqsUpTo(Blocks, MaxScripts)

\* what the three scans of one page answer
ScanOf(blocks) ==
  [schema |-> extractJsonLdSchema(blocks),
   article |-> HasSchemaOf(blocks, ArticleTypes, 0),
   product |-> HasSchemaOf(blocks, ProductTypes, 0)]

\* a page with its script elements is at hand
InitScan ==
  /\ now = 0
  /\ advances = 0
  /\ InitFetchIdle
  /\ InitUiIdle
  /\ InitLimiterIdle
  /\ InitPrefsIdle
  /\ InitCacheIdle
  /\ InitCtxIdle
  /\ InitExtractIdle
  /\ InitImgIdle
  /\ callArgs \in [blocks : ScriptLists]
  /\ callResult = NoResult

\* extractJsonLdSchema, hasArticleSchema and hasProductSchema on the page
ScanSchemas ==
  /\ ~callResult.done
  /\ callResult' = [done |-> TRUE, threw |-> FALSE, value |-> ScanOf(callArgs.blocks)]
  /\ UNCHANGED <<callArgs, NotCall>>

NextScan == ScanSchemas

SpecScan == InitScan /\ [][NextScan]_vars

\* ---------------------------------------------------------------------------
\* fetchService.fetchContent: its attempts, its timers and the time it takes
\* ---------------------------------------------------------------------------

\* setTimeout(() => reject(...), 1000) around the ping of the background script
PingTimeout == 1000

\* setTimeout(() => reject(new Error('Request timeout')), 3000 * attempt)
InnerTimeout(attempt) == 3000 * attempt

\* the second promise of Promise.race: setTimeout(..., 5000 * attempt)
RaceTimeout(attempt) == 5000 * attempt

\* the timer that ends an attempt no response arrives for
AttemptTimeout(attempt) == Min({InnerTimeout(attempt), RaceTimeout(attempt)})

\* a delay of 1000 ms whatever the attempt
BackoffDelayFixed(attempt) == 1000

\* Math.min(1000 * Math.pow(2, attempt - 1), 3000)
BackoffDelay(attempt) == Min({1000 * 2^(attempt - 1), 3000})

\* the times, in ms, at which a response can arrive before a timer of `limit`
ResponseTimes(limit) == {1, limit - 1}

\* how the context check and the ping can end
PingOutcomes == {"noRuntime", "alive", "dead", "silent"}

\* fetchContent(url) is called
FetchContentStart ==
  /\ fc.pc = "idle"
  /\ fc' = [fc EXCEPT !.pc = "ping"]
  /\ UNCHANGED NotFetch

\* the context check fails at once, the background script answers the ping
\* (or answers with an error) after t ms, or the ping's timer fires
PingSettles(outcome, t) ==
  /\ fc.pc = "ping"
  /\ CASE outcome = "noRuntime" -> t = 0
       [] outcome = "silent" -> t = PingTimeout
       [] OTHER -> t \in ResponseTimes(PingTimeout)
  /\ fc' = IF outcome = "alive"
           THEN [fc EXCEPT !.pc = "attempt", !.attempt = 1, !.attempts = 1,
                           !.elapsed = @ + t]
           ELSE [fc EXCEPT !.pc = "rejected", !.cause = "context", !.elapsed = @ + t]
  /\ UNCHANGED NotFetch

\* the background script answers the fetchUrl message with the content after
\* t ms: return response.content
AttemptResolves(t) ==
  /\ fc.pc = "attempt"
  /\ t \in ResponseTimes(AttemptTimeout(fc.attempt))
  /\ fc' = [fc EXCEPT !.pc = "resolved", !.elapsed = @ + t]
  /\ UNCHANGED NotFetch

\* the attempt rejects after t ms, by an answer or by its timer: the catch
\* block starts the delay before the next attempt, or the loop ends and
\* fetchContent throws
AttemptRejects(outcome, t) ==
  /\ fc.pc = "attempt"
  /\ IF outcome = "timeout" THEN t = AttemptTimeout(fc.attempt)
                            ELSE t \in ResponseTimes(AttemptTimeout(fc.attempt))
  /\ fc' = IF fc.attempt < MaxAttempts
           THEN [fc EXCEPT !.pc = "backoff", !.failures = @ + 1, !.cause = outcome,
                           !.waits = Append(@, BackoffDelay(fc.attempt)),
                           !.elapsed = @ + t]
           ELSE [fc EXCEPT !.pc = "rejected", !.failures = @ + 1, !.cause = outcome,
                           !.elapsed = @ + t]
  /\ UNCHANGED NotFetch

\* the delay has passed: attempt++ and the next fetchUrl message is sent
BackoffEnds ==
  /\ fc.pc = "backoff"
  /\ fc' = [fc EXCEPT !.pc = "attempt", !.attempt = @ + 1, !.attempts = @ + 1,
                      !.elapsed = @ + fc.waits[Len(fc.waits)]]
  /\ UNCHANGED NotFetch

\* the content script before the call
InitFetch ==
  /\ now = 0
  /\ advances = 0
  /\ InitFetchIdle
  /\ InitUiIdle
  /\ InitLimiterIdle
  /\ InitPrefsIdle
  /\ InitCacheIdle
  /\ InitCtxIdle
  /\ InitExtractIdle
  /\ InitImgIdle
  /\ InitCallIdle

NextFetch ==
  \/ FetchContentStart
  \/ \E o \in PingOutcomes, t \in {0, PingTimeout} \cup ResponseTimes(PingTimeout) :
       PingSettles(o, t)
  \/ \E a \in 1..MaxAttempts : \E t \in ResponseTimes(AttemptTimeout(a)) :
       AttemptResolves(t)
  \/ \E o \in AttemptFailures, a \in 1..MaxAttempts :
       \E t \in {AttemptTimeout(a)} \cup ResponseTimes(AttemptTimeout(a)) :
         AttemptRejects(o, t)
  \/ BackoffEnds

SpecFetch == InitFetch /\ [][NextFetch]_vars

\* ---------------------------------------------------------------------------
\* LinkPreview: hover, mouseout, and the extractions they start
\* ---------------------------------------------------------------------------

\* Bounds of the hover model
MaxInFlight == 2        \* extract calls of one url in flight together
MaxPendingClears == 1   \* armed 300 ms timers that end in clearPreview()
NumQueueUrls == 4       \* urls the reducer is handed in the queue model
MaxCarried == 3         \* largest maxQueueSize an ADD_TO_QUEUE carries

\* defaultPreferences.maxQueueSize
maxQueueSize == 3

\* the links of the page; their previews are cached under the same urls
HoverUrls == CtxUrls

\* some item of the queue has the url u
InQueue(queue, u) == \E i \in 1..Len(queue) : queue[i] = u

\* Array.prototype.slice(-n)
LastItems(queue, n) ==
  IF Len(queue) <= n THEN queue ELSE SubSeq(queue, Len(queue) - n + 1, Len(queue))

\* an ADD_TO_QUEUE that appends without looking for the url in the queue
AddToQueueUnchecked(queue, u, carried) ==
  LastItems(Append(queue, u), IF carried = 0 THEN 3 ELSE carried)

\* previewReducer, case 'ADD_TO_QUEUE'; carried = 0 stands for a payload
\* without maxQueueSize (action.payload.maxQueueSize || 3)
AddToQueue(queue, u, carried) ==
  IF InQueue(queue, u) THEN queue
  ELSE LastItems(Append(queue, u), IF carried = 0 THEN 3 ELSE carried)

\* a url given as a string, and the object { url } given in its place
UrlString(u) == [type |-> "string", url |-> u]
UrlObject(u) == [type |-> "object", url |-> u]

\* item.url !== action.payload.url: the url of an item is a string, and a
\* string is never identical to an object
NotIdentical(itemUrl, payloadUrl) ==
  ~(payloadUrl.type = "string" /\ payloadUrl.url = itemUrl)

\* previewReducer, case 'REMOVE_FROM_QUEUE', for the payload { url: payloadUrl }
RemoveFromQueue(queue, payloadUrl) ==
  SelectSeq(queue, LAMBDA itemUrl : NotIdentical(itemUrl, payloadUrl))

\* a dispatch that changes the provider's state re-renders LinkPreview with new
\* handlers; the cleanup of the listener effect then clears both timers (the
\* refs keep their values)
Rerendered(c) == [c EXCEPT !.pendingHover = {}, !.hideTimer = 0]

\* what the last step did is forgotten
Quiet(c) ==
  [c EXCEPT !.lastDelivery = NoDelivery, !.lastHide = 0, !.lastStart = NoStart,
            !.lastAdd = NoAdd]

\* a hover that sets its timer without clearing the one that is pending
HoverTimersKept(pending, u) == pending \cup {u}

\* clearTimeout(hoverTimerRef.current); hoverTimerRef.current = setTimeout(...)
HoverTimersAfterHover(pending, u) == {u}

\* handleLinkHover for an rlp-link-hover event with the url u: the pending
\* timer is cleared, currentUrlRef set and a new timer started
LinkHoverHandled(c, u) ==
  [c EXCEPT !.currentUrl = u, !.hoverTimer = u,
            !.pendingHover = HoverTimersAfterHover(@, u)]

\* handleLinkMouseout for an rlp-link-mouseout event with the url u: the hover
\* timer is cleared, currentUrlRef cleared if it is u, the hide timer started
LinkMouseoutHandled(c, u) ==
  [c EXCEPT !.hoverTimer = 0, !.pendingHover = {},
            !.currentUrl = IF @ = u THEN 0 ELSE @,
            !.hideTimer = u]

\* handleLinkHover: the pointer enters the link u
HandleLinkHover(u) ==
  /\ u \notin ui.entered
  /\ ui' = [LinkHoverHandled(Quiet(ui), u) EXCEPT !.entered = @ \cup {u}]
  /\ UNCHANGED <<ctxVars, NotUi>>

\* the callback of a hover timer: nothing to do when the preview of the
\* link is displayed; else the modal is shown, the link queued, loading
\* started and extract(url) called
HoverTimerFires(u) ==
  /\ u \in ui.pendingHover
  /\ IF ui.currentPreview = u
     THEN ui' = [Quiet(ui) EXCEPT !.pendingHover = @ \ {u}]
     ELSE /\ ui.inflight[u] < MaxInFlight
          /\ ui' = [Rerendered(Quiet(ui)) EXCEPT
                      !.isVisible = TRUE,
                      !.queue = IF Len(@) < maxQueueSize
                                THEN AddToQueue(@, u, maxQueueSize) ELSE @,
                      !.loading = TRUE,
                      !.inflight[u] = @ + 1,
                      !.lastStart = [happened |-> TRUE, url |-> u,
                                     hovered |-> u \in ui.entered]]
  /\ UNCHANGED <<ctxVars, NotUi>>

\* handleLinkMouseout: the pointer leaves the link u
HandleLinkMouseout(u) ==
  /\ u \in ui.entered
  /\ ui' = [LinkMouseoutHandled(Quiet(ui), u) EXCEPT !.entered = @ \ {u}]
  /\ UNCHANGED <<ctxVars, NotUi>>

\* the callback of the hide timer: the modal stays while the pointer is on it;
\* else removeFromQueue({ url }) is called and, if the preview of the link is
\* displayed, the modal is hidden and clearPreview() scheduled
HideTimerFires(keepOpen) ==
  /\ ui.hideTimer # 0
  /\ keepOpen => (ui.isVisible /\ ui.currentPreview # 0)
  /\ LET u == ui.hideTimer
         shown == ui.currentPreview = u
     IN IF keepOpen
        THEN ui' = [Quiet(ui) EXCEPT !.hideTimer = 0]
        ELSE /\ shown => ui.clearTimers < MaxPendingClears
             /\ ui' = [Rerendered(Quiet(ui)) EXCEPT
                         !.queue = RemoveFromQueue(@, UrlObject(u)),
                         !.isVisible = IF shown THEN FALSE ELSE @,
                         !.clearTimers = IF shown THEN @ + 1 ELSE @,
                         !.lastHide = u]
  /\ UNCHANGED <<ctxVars, NotUi>>

\* setTimeout(() => { clearPreview(); }, 300) fires
ClearTimerFires ==
  /\ ui.clearTimers > 0
  /\ ui' = [Rerendered(Quiet(ui)) EXCEPT !.clearTimers = @ - 1,
                                         !.currentPreview = 0, !.loading = FALSE]
  /\ UNCHANGED <<ctxVars, NotUi>>

\* how an extract call can end: with the record of the page, or in its catch
\* block after an error response, after the timeout of every attempt, or
\* after the extension context was invalidated
ExtractionOutcomes == {"success", "errorResponse", "timeout", "contextInvalidated"}

\* a SET_CURRENT_PREVIEW that leaves the loading flag as it is
LoadingKept(loading) == loading

\* previewReducer, case 'SET_CURRENT_PREVIEW': loading: false
LoadingAfterPreview(loading) == FALSE

\* an extract(u) call ends: onExtracted(previewData), with the record of the
\* page or the error record, which is setCurrentPreview: the record is
\* displayed and cached, and the effect on [currentPreview, loading] shows
\* the modal
ExtractionCompletes(u, outcome) ==
  /\ ui.inflight[u] > 0
  /\ ui' = [Rerendered(Quiet(ui)) EXCEPT
              !.inflight[u] = @ - 1,
              !.currentPreview = u,
              !.loading = LoadingAfterPreview(@),
              !.isVisible = IF LoadingAfterPreview(ui.loading) THEN @ ELSE TRUE,
              !.lastDelivery = [happened |-> TRUE, url |-> u, current |-> ui.currentUrl,
                                outcome |-> outcome]]
  /\ ctxCache' = UpdateCache(ctxCache, u, [url |-> u], now)
  /\ ctxOrigin' = [ctxOrigin EXCEPT ![u] = now]
  /\ ctxTimer' = now + CleanupInterval
  /\ ctxGet' = NoCtxGet
  /\ UNCHANGED NotUi

\* the component as mounted
InitHover ==
  /\ now = 0
  /\ advances = 0
  /\ InitFetchIdle
  /\ InitUiIdle
  /\ InitLimiterIdle
  /\ InitPrefsIdle
  /\ InitCacheIdle
  /\ InitCtxIdle
  /\ InitExtractIdle
  /\ InitImgIdle
  /\ InitCallIdle

NextHover ==
  \/ \E u \in HoverUrls : HandleLinkHover(u)
  \/ \E u \in HoverUrls : HoverTimerFires(u)
  \/ \E u \in HoverUrls : HandleLinkMouseout(u)
  \/ \E keepOpen \in BOOLEAN : HideTimerFires(keepOpen)
  \/ ClearTimerFires
  \/ \E u \in HoverUrls, outcome \in ExtractionOutcomes : ExtractionCompletes(u, outcome)

SpecHover == InitHover /\ [][NextHover]_vars

\* every extract call ends: fetchContent settles and the rest is synchronous
SpecHoverLive ==
  SpecHover /\ \A u \in HoverUrls :
                 WF_vars(\E outcome \in ExtractionOutcomes : ExtractionCompletes(u, outcome))

\* ---------------------------------------------------------------------------
\* previewReducer: the queue
\* ---------------------------------------------------------------------------

\* the urls of the items handed to addToQueue and removeFromQueue
QueueUrls == 1..NumQueueUrls

\* the maxQueueSize an ADD_TO_QUEUE carries: none (0), or a validated size
CarriedSizes == 0..MaxCarried

\* addToQueue(previewData) with preferences.maxQueueSize = carried
DispatchAddToQueue(u, carried) ==
  /\ ui' = [Rerendered(Quiet(ui)) EXCEPT
              !.queue = AddToQueue(@, u, carried),
              !.lastAdd = [happened |-> TRUE, before |-> ui.queue, url |-> u,
                           carried |-> carried]]
  /\ UNCHANGED <<ctxVars, NotUi>>

\* removeFromQueue(url)
DispatchRemoveFromQueue(u) ==
  /\ ui' = [Rerendered(Quiet(ui)) EXCEPT !.queue = RemoveFromQueue(@, UrlString(u))]
  /\ UNCHANGED <<ctxVars, NotUi>>

\* clearAll(): the initial state, the cache kept
DispatchClearAll ==
  /\ ui' = [Rerendered(Quiet(ui)) EXCEPT !.queue = <<>>, !.currentPreview = 0,
                                         !.loading = FALSE]
  /\ UNCHANGED <<ctxVars, NotUi>>

NextQueue ==
  \/ \E u \in QueueUrls, carried \in CarriedSizes : DispatchAddToQueue(u, carried)
  \/ \E u \in QueueUrls : DispatchRemoveFromQueue(u)
  \/ DispatchClearAll

SpecQueue == InitHover /\ [][NextQueue]_vars

\* ---------------------------------------------------------------------------
\* background.js: fetchRateLimiter and the fetchUrl message
\* ---------------------------------------------------------------------------

\* Bounds of the rate-limiter model
MaxRateAdvances == 1   \* clock advances per behaviour
MaxFetches == 31       \* fetches made per behaviour

\* maxRequestsPerMinute: 30
maxRequestsPerMinute == 30

\* const oneMinuteAgo = now - 60000
oneMinute == 60000

\* how far the clock moves between two messages: a millisecond, a minute
RateDeltas == {1, oneMinute}

\* the urls of the fetchUrl messages handled at time t: 0 is a url that
\* isValidUrl rejects; among the valid ones it matters only whether a url was
\* already requested in this millisecond, so they are numbered in the order
\* of their first request and a message names the first or the next
RequestUrls(requests, t) ==
  {0, 1, Cardinality({k \in requests : k.at = t}) + 1}

\* the loop over this.requests.entries(): entries older than a minute go
CleanedRequests(requests, t) == {k \in requests : ~(k.at < t - oneMinute)}

\* Array.from(this.requests.values()).filter(timestamp => timestamp > oneMinuteAgo)
RecentRequests(requests, t) == {k \in requests : k.at > t - oneMinute}

\* canMakeRequest(url): its answer
CanMakeRequest(requests, t) ==
  Cardinality(RecentRequests(CleanedRequests(requests, t), t)) < maxRequestsPerMinute

\* canMakeRequest(url): the map it leaves. The key of an entry is url + now
\* and its value is now: a second request of a url in one millisecond sets
\* the entry that is there
RequestsAfter(requests, url, t) ==
  IF CanMakeRequest(requests, t)
  THEN CleanedRequests(requests, t) \cup {[url |-> url, at |-> t]}
  ELSE CleanedRequests(requests, t)

\* the fetches made within the minute that ends at t
FetchesInWindow(fetched, t) ==
  Cardinality({i \in DOMAIN fetched : fetched[i] > t - oneMinute})

\* the onMessage listener on { action: 'fetchUrl', url }: 'Invalid URL', or
\* the rate-limit error, or fetch(request.url)
FetchUrlMessage(url) ==
  /\ Len(rl.fetched) < MaxFetches
  /\ IF url = 0
     THEN rl' = [rl EXCEPT !.last = [answered |-> TRUE, admitted |-> FALSE,
                                     window |-> FetchesInWindow(rl.fetched, now)]]
     ELSE LET ok == CanMakeRequest(rl.requests, now)
              fetched == IF ok THEN Append(rl.fetched, now) ELSE rl.fetched
          IN rl' = [requests |-> RequestsAfter(rl.requests, url, now),
                    fetched |-> fetched,
                    last |-> [answered |-> TRUE, admitted |-> ok,
                              window |-> FetchesInWindow(fetched, now)]]
  /\ UNCHANGED <<now, advances, NotLimiter>>

\* the clock moves on between two messages
RateAdvance(d) ==
  /\ advances < MaxRateAdvances
  /\ now' = now + d
  /\ advances' = advances + 1
  /\ rl' = [rl EXCEPT !.last = NoAnswer]
  /\ UNCHANGED NotLimiter

\* the background script as it starts
InitRate ==
  /\ now = 0
  /\ advances = 0
  /\ InitFetchIdle
  /\ InitUiIdle
  /\ InitLimiterIdle
  /\ InitPrefsIdle
  /\ InitCacheIdle
  /\ InitCtxIdle
  /\ InitExtractIdle
  /\ InitImgIdle
  /\ InitCallIdle

NextRate ==
  \/ \E url \in RequestUrls(rl.requests, now) : FetchUrlMessage(url)
  \/ \E d \in RateDeltas : RateAdvance(d)

SpecRate == InitRate /\ [][NextRate]_vars

\* ---------------------------------------------------------------------------
\* Claims about the preview-generator cache
\* ---------------------------------------------------------------------------

\* C5 (as stated): getCached returns a record only when now - timestamp < TTL;
\* an entry whose age has reached the TTL is reported as a miss.
C5_HitOnlyBelowTimeout ==
  (lastGet.called /\ lastGet.result # Null) => lastGet.age < cacheTimeout

\* C5 (amended): getCached returns a record only when now - timestamp <= TTL;
\* an entry older than the TTL is a miss, and a present entry of age <= TTL is
\* returned as the record that was last stored for that url.
C5_HitIffNotOlderThanTimeout ==
  lastGet.called =>
    /\ (lastGet.result # Null) => (lastGet.present /\ lastGet.age <= cacheTimeout)
    /\ (lastGet.present /\ lastGet.age > cacheTimeout) => lastGet.result = Null
    /\ (lastGet.present /\ lastGet.age <= cacheTimeout) => lastGet.result = lastGet.stored

\* C5 witness: a lookup of an entry whose age is exactly the TTL returned the record
C5_Witness ==
  /\ lastGet.called /\ lastGet.present
  /\ lastGet.age = cacheTimeout
  /\ lastGet.result = [title |-> "B"]

\* C6 (as stated): the cache never holds more than 50 entries.
C6_AtMostLimit == Len(cache) <= CacheLimit

\* C6 (amended): the cache never holds more than 51 entries: setCached evicts
\* one entry only when the size already exceeds 50, and then inserts.
C6_AtMostLimitPlusOne == Len(cache) <= CacheLimit + 1

\* C6 witness: setCached has evicted and the cache holds 51 entries
C6_Witness == lastEvict.happened /\ Len(cache) = CacheLimit + 1

\* C7 (as stated): whenever setCached evicts for capacity, the entry removed is
\* the one with the smallest timestamp among those present.
C7_EvictsOldestTimestamp ==
  lastEvict.happened => lastEvict.evictedTs = lastEvict.minTs

\* ---------------------------------------------------------------------------
\* Claims about generatePreview
\* ---------------------------------------------------------------------------

\* C2 (as stated): every PreviewRecord produced, on success, error and fallback
\* paths alike, has a contentType among the seven enumerated values.
C2_ContentTypeEnumerated ==
  produced # Null => produced.contentType \in ContentTypes

\* C9: with overlapping generations for one url, and gets interleaved with
\* sets, every cache entry is one complete {preview, timestamp} pair written by
\* one setCached call, the last one for its key; never a mixture of two writes.
C9_EntryIsLastCompleteWrite ==
  \A i \in 1..Len(cache) :
    /\ written[cache[i].url] # Null
    /\ cache[i].preview = written[cache[i].url].preview
    /\ cache[i].timestamp = written[cache[i].url].timestamp
    /\ cache[i].preview.status = "complete"
    /\ \A j \in 1..Len(cache) : cache[j].url = cache[i].url => j = i

\* C9 witness: two generations for the same url overlapped, both missed the
\* cache and both stored at different times; the entry is the later writer's
C9_Witness ==
  /\ gen[1].pc = "done" /\ gen[2].pc = "done"
  /\ gen[1].data.url = gen[2].data.url
  /\ gen[2].overlapped
  /\ gen[1].preview.status = "complete" /\ gen[2].preview.status = "complete"
  /\ gen[1].preview.title = 1 /\ gen[2].preview.title = 2
  /\ MapHas(cache, gen[1].data.url)
  /\ MapGet(cache, gen[1].data.url).preview = gen[1].preview
  /\ MapGet(cache, gen[1].data.url).timestamp > gen[2].preview.created

\* ---------------------------------------------------------------------------
\* Claims about the preview-context cache
\* ---------------------------------------------------------------------------

\* C8 (as stated): getCachedPreview never returns data that was cached more
\* than one hour earlier; the periodic cleanup does not extend the lifetime of
\* the entries that survive it.
C8_NeverOlderThanOneHour ==
  (ctxGet.called /\ ctxGet.result # Null) => ctxGet.originAge <= oneHour

\* ---------------------------------------------------------------------------
\* Claims about ContentExtractor.extract
\* ---------------------------------------------------------------------------

\* C1: whatever the fetch outcome, the content or the failing stage, extract
\* never rejects, and a call that has settled has delivered a record: a normal
\* record from the assembled state or an error-typed record from the errored
\* state.
C1_AlwaysDeliversRecord ==
  /\ ex.settled # "rejected"
  /\ ex.pc = "done" =>
       /\ ex.settled = "resolved"
       /\ delivered # Null
       /\ \/ ex.stage = "assembled" /\ delivered.contentType \in DetectedTypes
          \/ ex.stage = "errored" /\ delivered.contentType = "error"

\* a type-specific branch threw and the caller still got an error-typed record
C1_Witness ==
  /\ ex.pc = "done"
  /\ ex.stage = "errored"
  /\ ex.page # Null
  /\ ~ex.page.blank
  /\ delivered # Null
  /\ delivered.contentType = "error"

\* C3 (as stated): a page whose only JSON-LD block is the Product block with
\* price "19.99" is classified product and the pipeline completes with a
\* product-typed record whose price is "19.99".
C3_ProductPageYieldsPrice ==
  (/\ ex.pc = "done"
   /\ ex.page # Null
   /\ ~ex.page.blank
   /\ ex.page.jsonld = <<ProductBlock>>
   /\ ex.page.structure = {}
   /\ ex.urlKind = "other")
  => (/\ ex.contentType = "product"
      /\ delivered.contentType = "product"
      /\ delivered.price = "19.99")

\* the user-facing message the claim assigns to each failure category
MessageOfCategory(cause) ==
  CASE cause = "timeout" -> UserMsgTimeout
    [] cause = "blocked" -> UserMsgBlocked
    [] cause = "http404" -> UserMsgNotFound
    [] cause = "http403" -> UserMsgForbidden
    [] cause = "http500" -> UserMsgServerError
    [] cause = "context" -> UserMsgReloaded
    [] OTHER -> UserMsgGeneric

\* C4 (as stated): for a failure surfaced by the fetch service, the message of
\* the error record is the one of the failure's category: timeout, blocked,
\* 404, 403, 500, else the generic fallback.
C4_MessageFollowsCategory ==
  (ex.pc = "done" /\ ex.cause # "none" /\ ex.page = Null)
  => delivered.description = MessageOfCategory(ex.cause)

\* ---------------------------------------------------------------------------
\* Claims about the image selector
\* ---------------------------------------------------------------------------

\* C10 (as stated): the list extractImportantImages returns holds no two
\* candidates with the same src, over both phases.
C10_NoDuplicateSrc ==
  imgOut.returned =>
    \A i, j \in DOMAIN imgOut.images : i # j => imgOut.images[i].src # imgOut.images[j].src

\* C11 (as stated): for every document and every maxImages, 0 included, the
\* list extractImportantImages returns has at most maxImages candidates.
C11_AtMostMaxImages ==
  imgOut.returned => Len(imgOut.images) <= imgIn.maxImages

\* the call the orchestrator's branches make: extractImportantImages(dom)
OrchestratorCall == imgIn.maxImages = DefaultMaxImages /\ imgIn.baseUrl = "none"

\* C12 (as stated): every src the selector returns to the orchestrator is an
\* absolute URL or a data URI; a relative path is resolved or dropped.
C12_SrcAbsoluteOrData ==
  (imgOut.returned /\ OrchestratorCall) =>
    \A i \in DOMAIN imgOut.images : imgOut.images[i].src.kind \in {"abs", "data"}

\* C13 (as stated): no candidate whose src is an SVG data URI enters the
\* returned list, whatever the length of the URI.
C13_NoSvgDataUri ==
  imgOut.returned =>
    \A i \in DOMAIN imgOut.images :
      ~(imgOut.images[i].src.kind = "data" /\ imgOut.images[i].src.svg)

\* ---------------------------------------------------------------------------
\* Claims about the summarizer
\* ---------------------------------------------------------------------------

\* C14 (as stated): for every text and every maxSentences / maxChars, the
\* string summarize returns is at most maxChars long.
C14_SummaryWithinMaxChars ==
  callResult.done => Len(callResult.value) <= callArgs.maxChars

\* ---------------------------------------------------------------------------
\* Claims about the classifier
\* ---------------------------------------------------------------------------

\* no rule of the classifier matches the call's document and URL
NoRuleMatches ==
  /\ callArgs.url = "other"
  /\ callArgs.doc \notin {Null, NotADocument}
  /\ callArgs.doc.structure = {}
  /\ \A i \in DOMAIN callArgs.doc.jsonld :
       callArgs.doc.jsonld[i].type \notin (ArticleTypes \cup ProductTypes)

\* C15: detect is total: for every document and URL, a missing document or
\* URL, unparseable JSON-LD blocks and internal exceptions included, it
\* returns one ContentType value without throwing, and default when no rule
\* matches.
C15_DetectTotal ==
  callResult.done =>
    /\ ~callResult.threw
    /\ callResult.value \in ContentTypes
    /\ NoRuleMatches => callResult.value = "default"

\* an exception inside detect (a non-document) ended in the value default
C15_Witness ==
  /\ callResult.done
  /\ callArgs.doc = NotADocument
  /\ callArgs.url = "other"
  /\ ~callResult.threw
  /\ callResult.value = "default"

\* the type of the first rule, in the fixed order, that matches doc and url
FirstMatchingRule(doc, url) ==
  LET rules == << [matches |-> isVideoSite(url), type |-> "video"],
                  [matches |-> isSocialSite(url), type |-> "social"],
                  [matches |-> isEcommerceSite(url), type |-> "product"],
                  [matches |-> hasArticleSchema(doc) \/ "article" \in doc.structure,
                   type |-> "article"],
                  [matches |-> hasProductSchema(doc) \/ "product" \in doc.structure,
                   type |-> "product"],
                  [matches |-> "gallery" \in doc.structure, type |-> "gallery"],
                  [matches |-> "video" \in doc.structure, type |-> "video"],
                  [matches |-> "text" \in doc.structure, type |-> "article"],
                  [matches |-> TRUE, type |-> "default"] >>
      first == CHOOSE i \in DOMAIN rules :
                 rules[i].matches /\ \A j \in 1..(i - 1) : ~rules[j].matches
  IN rules[first].type

\* C16: the result of detect is that of the first matching rule in the order
\* video URL, social URL, e-commerce URL, article schema or structure, product
\* schema or markers, gallery structure, video structure, substantial text,
\* default.
C16_FirstMatchWins ==
  (/\ callResult.done
   /\ callArgs.doc \notin {Null, NotADocument}
   /\ callArgs.url \notin {"null", "notString"})
  => callResult.value = FirstMatchingRule(callArgs.doc, callArgs.url)

\* a page with article structure and product markers came out as article
C16_Witness ==
  /\ callResult.done
  /\ callArgs.url = "other"
  /\ callArgs.doc \notin {Null, NotADocument}
  /\ {"article", "product"} \subseteq callArgs.doc.structure
  /\ callResult.value = "article"

\* ---------------------------------------------------------------------------
\* Claims about the article extractor
\* ---------------------------------------------------------------------------

\* C17 (as stated): parseArticle never throws, a missing (null or undefined)
\* document included, and on any internal failure it returns the degraded
\* record: title "Untitled Article", empty text, zero counts.
C17_ParseArticleNeverThrows ==
  callResult.done =>
    /\ ~callResult.threw
    /\ (callArgs.doc \in ArticleDocs /\ ~callArgs.doc.cloneable)
         => callResult.value = DegradedArticle

\* ---------------------------------------------------------------------------
\* Claims about the scans of structured data
\* ---------------------------------------------------------------------------

\* C18 (as stated): a JSON-LD block that fails to parse never aborts the scan
\* of the remaining blocks: a valid block that follows any number of malformed
\* blocks is still examined, by the schema extractor (which then finds a
\* schema) and by the classifier's checks (which then see its type).
C18_MalformedBlocksNeverAbortScan ==
  callResult.done =>
    LET blocks == callArgs.blocks
        Valid(types) == \E i \in 1..Len(blocks) :
                          blocks[i].parses /\ blocks[i].type \in types
    IN /\ (\E i \in 1..Len(blocks) : blocks[i].parses) => callResult.value.schema # Null
       /\ callResult.value.article = Valid(ArticleTypes)
       /\ callResult.value.product = Valid(ProductTypes)

\* ---------------------------------------------------------------------------
\* Claims about fetchContent
\* ---------------------------------------------------------------------------

\* C19: every fetchContent call settles in bounded time. It makes at most 3
\* fetchUrl attempts, each ended by its own timer when no answer arrives (so
\* the whole call takes at most 1000 + 3000 + 1000 + 6000 + 2000 + 9000 ms);
\* it waits 1000 ms, then 2000 ms, never more than 3000 ms, and only after a
\* failed attempt that another attempt follows; it returns at the first
\* successful attempt, and it rejects at the third failure.
C19_FetchSettlesInBoundedTime ==
  /\ fc.attempts <= 3
  /\ fc.elapsed <= 22000
  /\ fc.pc \in {"ping", "attempt", "backoff"} => fc.elapsed < 22000
  /\ Len(fc.waits) <= 2
  /\ fc.waits = SubSeq(<<1000, 2000>>, 1, Len(fc.waits))
  /\ \A i \in 1..Len(fc.waits) : fc.waits[i] <= 3000
  /\ fc.pc \in {"attempt", "resolved"} =>
       (fc.attempts = fc.failures + 1 /\ Len(fc.waits) = fc.failures)
  /\ fc.pc = "backoff" =>
       (fc.attempts = fc.failures /\ Len(fc.waits) = fc.failures /\ fc.failures < 3)
  /\ fc.pc = "rejected" =>
       \/ fc.attempts = 0 /\ fc.failures = 0 /\ fc.waits = <<>>
       \/ fc.attempts = 3 /\ fc.failures = 3 /\ Len(fc.waits) = 2
  /\ fc.failures = 3 => fc.pc = "rejected"

\* C19 witness: three attempts ended by their timers, with both waits between
\* them, after a ping answered at the last moment: the call has rejected
C19_Witness ==
  /\ fc.pc = "rejected"
  /\ fc.attempts = 3
  /\ fc.cause = "timeout"
  /\ fc.waits = <<1000, 2000>>
  /\ fc.elapsed = 999 + 3000 + 1000 + 6000 + 2000 + 9000

\* ---------------------------------------------------------------------------
\* Claims about the hover handlers
\* ---------------------------------------------------------------------------

\* C20 (as stated): the result of an extraction the UI no longer needs (the
\* pointer has left that link, or a newer link has been hovered) is discarded:
\* whenever an extraction's result replaces currentPreview, its url is the one
\* currentUrlRef holds, the link hovered last and not left since.
C20_LateResultDiscarded ==
  ui.lastDelivery.happened => ui.lastDelivery.url = ui.lastDelivery.current

\* ---------------------------------------------------------------------------
\* Claims about the background script
\* ---------------------------------------------------------------------------

\* C21 (as stated): in any 60-second window the background script lets at
\* most 30 fetchUrl requests through to the network; a request refused by the
\* limiter is answered without a fetch.
C21_AtMostThirtyFetchesPerMinute ==
  /\ FetchesInWindow(rl.fetched, now) <= 30
  /\ (rl.last.answered /\ ~rl.last.admitted) => rl.last.window <= 30

\* C22 (as stated): when the hide delay of a left link expires and the
\* pointer is not over the modal, the queue holds no item for that link's url.
C22_LeftLinkLeavesQueue ==
  ui.lastHide # 0 => ~InQueue(ui.queue, ui.lastHide)

\* ---------------------------------------------------------------------------
\* Claims about the queue of the preview reducer
\* ---------------------------------------------------------------------------

\* C23 (as stated): after any sequence of reducer actions no two items of the
\* queue share a url, and after every ADD_TO_QUEUE the queue is no longer than
\* the maxQueueSize the action carries (3 when it carries none).
C23_QueueBoundedAfterEveryAdd ==
  /\ \A i, j \in 1..Len(ui.queue) : i # j => ui.queue[i] # ui.queue[j]
  /\ ui.lastAdd.happened =>
       Len(ui.queue) <= (IF ui.lastAdd.carried = 0 THEN 3 ELSE ui.lastAdd.carried)

\* C23 (amended): no two items of the queue share a url; an ADD_TO_QUEUE of a
\* url that is queued leaves the queue as it is, whatever its length; an
\* ADD_TO_QUEUE of another url leaves the old items followed by the new one,
\* less as many of the oldest as it takes to bring the length down to the
\* maxQueueSize the action carries (3 when it carries none).
C23_QueueBoundedAfterAdding ==
  /\ \A i, j \in 1..Len(ui.queue) : i # j => ui.queue[i] # ui.queue[j]
  /\ ui.lastAdd.happened =>
       LET limit == IF ui.lastAdd.carried = 0 THEN 3 ELSE ui.lastAdd.carried
           appended == Append(ui.lastAdd.before, ui.lastAdd.url)
           dropped == Len(appended) - Len(ui.queue)
       IN IF \E i \in 1..Len(ui.lastAdd.before) : ui.lastAdd.before[i] = ui.lastAdd.url
          THEN ui.queue = ui.lastAdd.before
          ELSE /\ Len(ui.queue) <= limit
               /\ dropped >= 0
               /\ dropped > 0 => Len(ui.queue) = limit
               /\ \A i \in 1..Len(ui.queue) : ui.queue[i] = appended[i + dropped]

\* C23 witness: a new url is added to a queue of three items by an action
\* that carries maxQueueSize 2, and the two oldest items are gone
C23_Witness ==
  /\ ui.lastAdd.happened
  /\ ui.lastAdd.carried = 2
  /\ Len(ui.lastAdd.before) = 3
  /\ ui.queue = <<ui.lastAdd.before[3], ui.lastAdd.url>>
  /\ ui.lastAdd.url # ui.lastAdd.before[3]

\* ---------------------------------------------------------------------------
\* userPreferences: the preferences in chrome.storage.sync and their profiles
\* ---------------------------------------------------------------------------

\* Bound of the preferences model
MaxPrefCalls == 3    \* calls that change the preferences, per behaviour

\* what the background script stores on installation: no profiles
InstalledPreferences ==
  [profiles |-> [k \in ProfileKeys |-> "absent"], previewDelay |-> 300, theme |-> "system"]

\* the arguments of updatePreferences: one changes previewDelay, one theme
PrefUpdates == {[previewDelay |-> 500, theme |-> "none"], [previewDelay |-> 0, theme |-> "dark"]}

\* mergeWithDefaults: merged.profiles is { ...defaultPreferences.profiles,
\* ...saved.profiles }, the other keys are the saved ones
mergeWithDefaults(saved) ==
  [saved EXCEPT !.profiles = [k \in ProfileKeys |->
                                IF saved.profiles[k] # "absent" THEN saved.profiles[k]
                                ELSE DefaultProfiles[k]]]

\* what loadPreferences resolves with
LoadResult(stored) ==
  IF stored.present THEN mergeWithDefaults(stored.value) ELSE defaultPreferences

\* loadPreferences saves the defaults when nothing is stored
StoredAfterLoad(stored) ==
  IF stored.present THEN stored ELSE [present |-> TRUE, value |-> defaultPreferences]

\* setActiveProfile: isActive: key === profileKey for every profile
SetActiveUpdated(p, key) ==
  [p EXCEPT !.profiles = [k \in ProfileKeys |->
                            IF p.profiles[k] = "absent" THEN "absent"
                            ELSE IF k = key THEN "active" ELSE "inactive"]]

\* createProfile: { name, isActive: false, ...profileData }
CreateUpdated(p, key, isActive) ==
  [p EXCEPT !.profiles[key] = IF isActive THEN "active" ELSE "inactive"]

\* deleteProfile: the key is deleted, default activated if it was active
DeleteUpdated(p, key) ==
  [p EXCEPT !.profiles = [k \in ProfileKeys |->
                            IF k = key THEN "absent"
                            ELSE IF k = "default" /\ p.profiles[key] = "active" THEN "active"
                            ELSE p.profiles[k]]]

\* updatePreferences: { ...currentPreferences, ...newPreferences }
UpdateUpdated(p, changes) ==
  [p EXCEPT !.previewDelay = IF changes.previewDelay # 0 THEN changes.previewDelay ELSE @,
            !.theme = IF changes.theme # "none" THEN changes.theme ELSE @]

\* the checks that throw: a profile to activate or delete that does not
\* exist, a profile to create that exists, the default profile to delete
PrefThrows(op, p, key) ==
  \/ op = "setActiveProfile" /\ p.profiles[key] = "absent"
  \/ op = "createProfile" /\ p.profiles[key] # "absent"
  \/ op = "deleteProfile" /\ (key = "default" \/ p.profiles[key] = "absent")

\* the value the call saves
PrefUpdated(op, p, key, isActive, changes) ==
  CASE op = "setActiveProfile" -> SetActiveUpdated(p, key)
    [] op = "createProfile" -> CreateUpdated(p, key, isActive)
    [] op = "deleteProfile" -> DeleteUpdated(p, key)
    [] OTHER -> UpdateUpdated(p, changes)

\* what the last step did is forgotten
QuietPrefs(c) == [c EXCEPT !.lastLoad = NoLoad, !.lastSave = NoSave]

\* the calls the model makes
PrefOps == {"setActiveProfile", "createProfile", "deleteProfile", "updatePreferences"}
PrefInputs ==
  {i \in [op : PrefOps, key : ProfileKeys \cup {"none"}, isActive : BOOLEAN,
          changes : PrefUpdates \cup {NoChanges}] :
     /\ (i.op = "updatePreferences") = (i.key = "none")
     /\ (i.op = "updatePreferences") = (i.changes # NoChanges)
     /\ i.isActive => i.op = "createProfile"}

\* a call from its start to `await savePreferences(...)`: loadPreferences
\* resolves, the checks run and the value to save is built
PrefBegin(c, i) ==
  /\ prefs.calls[c].pc = "idle"
  /\ prefs.begun < MaxPrefCalls
  /\ LET p == LoadResult(prefs.stored)
         early == i.op = "deleteProfile" /\ i.key = "default"
         call == [IdlePrefCall EXCEPT !.op = i.op, !.key = i.key,
                                      !.isActive = i.isActive, !.changes = i.changes]
     IN prefs' = [QuietPrefs(prefs) EXCEPT
                    !.begun = @ + 1,
                    !.stored = IF early THEN @ ELSE StoredAfterLoad(@),
                    !.calls[c] =
                       IF PrefThrows(i.op, p, i.key)
                       THEN [call EXCEPT !.pc = "done", !.outcome = "rejected"]
                       ELSE [call EXCEPT
                               !.pc = "saving",
                               !.updated = PrefUpdated(i.op, p, i.key, i.isActive, i.changes),
                               !.overlapped = \E d \in PrefCalls \ {c} :
                                                 prefs.calls[d].pc = "saving"]]
  /\ UNCHANGED NotPrefs

\* where savePreferences ends: chrome.storage.sync.set succeeds; it fails on
\* QUOTA_BYTES and chrome.storage.local.set succeeds; or the promise rejects
SaveLandings == {"sync", "local", "rejected"}

\* savePreferences of the call c ends
PrefSave(c, landing) ==
  /\ prefs.calls[c].pc = "saving"
  /\ LET call == prefs.calls[c]
         resolved == landing # "rejected"
     IN prefs' = [QuietPrefs(prefs) EXCEPT
                    !.stored = IF landing = "sync"
                               THEN [present |-> TRUE, value |-> call.updated] ELSE @,
                    !.calls[c] = [call EXCEPT !.pc = "done",
                                              !.outcome = IF resolved THEN "resolved"
                                                          ELSE "rejected"],
                    !.deleted = IF resolved /\ call.op = "deleteProfile" THEN @ \cup {call.key}
                                ELSE IF resolved /\ call.op = "createProfile" THEN @ \ {call.key}
                                ELSE @,
                    !.lastSave = [landed |-> landing = "sync", op |-> call.op]]
  /\ UNCHANGED NotPrefs

\* the caller has taken the result of the call c
PrefSettle(c) ==
  /\ prefs.calls[c].pc = "done"
  /\ prefs' = [QuietPrefs(prefs) EXCEPT !.calls[c] = IdlePrefCall]
  /\ UNCHANGED NotPrefs

\* a call of loadPreferences
LoadPreferences ==
  /\ prefs' = [QuietPrefs(prefs) EXCEPT
                 !.stored = StoredAfterLoad(@),
                 !.lastLoad = [loaded |-> TRUE, value |-> LoadResult(prefs.stored)]]
  /\ UNCHANGED NotPrefs

\* the extension as installed, or with nothing in chrome.storage.sync
InitPrefs ==
  /\ now = 0
  /\ advances = 0
  /\ InitFetchIdle
  /\ InitUiIdle
  /\ InitLimiterIdle
  /\ prefs \in {IdlePrefs,
                [IdlePrefs EXCEPT !.stored = [present |-> TRUE, value |-> InstalledPreferences]]}
  /\ InitCacheIdle
  /\ InitCtxIdle
  /\ InitExtractIdle
  /\ InitImgIdle
  /\ InitCallIdle

NextPrefs ==
  \/ \E c \in PrefCalls, i \in PrefInputs : PrefBegin(c, i)
  \/ \E c \in PrefCalls, landing \in SaveLandings : PrefSave(c, landing)
  \/ \E c \in PrefCalls : PrefSettle(c)
  \/ LoadPreferences

SpecPrefs == InitPrefs /\ [][NextPrefs]_vars

\* ---------------------------------------------------------------------------
\* The content script: pointer events become rlp-link-hover and
\* rlp-link-mouseout events
\* ---------------------------------------------------------------------------

\* where the pointer can be: on the link u (u \in HoverUrls), on an element of
\* the page outside every link (0), or outside the document (-1)
PointerTargets == HoverUrls \cup {0, -1}

\* handleLinkMouseOut of the content script, for a mouseout of the element
\* `from`: nothing outside a link; else currentHoveredLink is cleared if it is
\* the link, and rlp-link-mouseout dispatched
MouseoutDispatched(c, from) ==
  IF from \notin HoverUrls THEN c
  ELSE LinkMouseoutHandled(
         [c EXCEPT !.currentHoveredLink = IF @ = from THEN 0 ELSE @], from)

\* the debounced mouseover listener is called for the element `to`: the
\* waiting call is replaced; no mouseover happens outside the document
MouseoverDebounced(c, to) ==
  IF to = -1 THEN c ELSE [c EXCEPT !.debounced = [pending |-> TRUE, target |-> to]]

\* the pointer moves from where it is to `to`: a mouseout of the element it
\* leaves, then a mouseover of the element it enters
PointerMoves(to) ==
  /\ to # ui.over
  /\ ui' = [MouseoverDebounced(MouseoutDispatched(Quiet(ui), ui.over), to)
              EXCEPT !.over = to,
                     !.entered = {to} \cap HoverUrls]
  /\ UNCHANGED <<ctxVars, NotUi>>

\* 100 ms after the last mouseover the debounced function runs with that
\* event: nothing when its target is in no link or in the link of
\* currentHoveredLink; else rlp-link-hover is dispatched for the link
DebouncedHoverRuns ==
  /\ ui.debounced.pending
  /\ LET link == ui.debounced.target
         c == [Quiet(ui) EXCEPT !.debounced = NoMouseover]
     IN ui' = IF link \notin HoverUrls \/ ui.currentHoveredLink = link
              THEN c
              ELSE LinkHoverHandled([c EXCEPT !.currentHoveredLink = link], link)
  /\ UNCHANGED <<ctxVars, NotUi>>

\* the context menu item is clicked for the link u: the background script
\* dispatches rlp-manual-preview in the page, and the content script dispatches
\* rlp-link-hover for it
ManualPreview(u) ==
  /\ ui' = LinkHoverHandled(Quiet(ui), u)
  /\ UNCHANGED <<ctxVars, NotUi>>

NextPointer ==
  \/ \E to \in PointerTargets : PointerMoves(to)
  \/ DebouncedHoverRuns
  \/ \E u \in HoverUrls : ManualPreview(u)
  \/ \E u \in HoverUrls : HoverTimerFires(u)
  \/ \E keepOpen \in BOOLEAN : HideTimerFires(keepOpen)
  \/ ClearTimerFires
  \/ \E u \in HoverUrls, outcome \in ExtractionOutcomes : ExtractionCompletes(u, outcome)

SpecPointer == InitHover /\ [][NextPointer]_vars

\* ---------------------------------------------------------------------------
\* Claims about the hover timer and the loading flag
\* ---------------------------------------------------------------------------

\* C24: once the hover timer has dispatched START_LOADING and called extract,
\* the loading flag returns to false, however the extraction ends.
C24_LoadingEventuallyEnds == ui.loading ~> ~ui.loading

\* C24 witness: an extraction that ended by the timeout of every attempt has
\* delivered its record, and the loading flag is false
C24_Witness ==
  /\ ui.lastDelivery.happened
  /\ ui.lastDelivery.outcome = "timeout"
  /\ ~ui.loading

FirstIn(log, event) ==
  IF \E i \in 1..Len(log) : log[i] = event
  THEN CHOOSE i \in 1..Len(log) : log[i] = event /\ \A j \in 1..(i - 1) : log[j] # event
  ELSE 0

\* the 'basic' update comes before the 'media' update
BasicBeforeMedia ==
  \A c \in Calls :
    FirstIn(gen[c].log, "media") # 0 =>
      /\ FirstIn(gen[c].log, "basic") # 0
      /\ FirstIn(gen[c].log, "basic") < FirstIn(gen[c].log, "media")

\* C26: a generatePreview call that misses the cache and has onProgressUpdate
\* delivers the 'basic' update before the 'media' update, and both before its
\* promise resolves with the complete preview.
C26_ProgressBeforeResolution ==
  /\ BasicBeforeMedia
  /\ \A c \in Calls :
       FirstIn(gen[c].log, "resolved") # 0 =>
         /\ FirstIn(gen[c].log, "basic") # 0
         /\ FirstIn(gen[c].log, "media") # 0
         /\ FirstIn(gen[c].log, "media") < FirstIn(gen[c].log, "resolved")

\* ---------------------------------------------------------------------------
\* Claims about the reading time of an article record
\* ---------------------------------------------------------------------------

\* C27: the article record has wordCount = the number of whitespace-separated
\* tokens of the article text (0 for the empty text) and
\* readingTime = ceil(wordCount / 200).
C27_ReadingTimeIsCeilOfWordCount ==
  callResult.done =>
    /\ callResult.value.wordCount = Tokens(callArgs.text)
    /\ callResult.value.readingTime = calculateReadingTime(callResult.value.wordCount)

\* ---------------------------------------------------------------------------
\* Claims about the stored preferences
\* ---------------------------------------------------------------------------

\* the number of profiles with isActive = true
ActiveCount(profiles) == Cardinality({k \in ProfileKeys : profiles[k] = "active"})

\* C28: when createProfile, setActiveProfile or deleteProfile has succeeded
\* and stored its value, exactly one stored profile has isActive = true.
C28_ExactlyOneActiveProfile ==
  (prefs.lastSave.landed /\ prefs.lastSave.op # "updatePreferences")
    => ActiveCount(prefs.stored.value.profiles) = 1

\* C29: a profile whose deleteProfile succeeded is absent from what every
\* later loadPreferences returns, until a createProfile of it succeeds.
C29_DeletedProfileStaysAbsent ==
  prefs.lastLoad.loaded =>
    \A k \in prefs.deleted : prefs.lastLoad.value.profiles[k] = "absent"

\* C30: when two overlapping updatePreferences calls that change different
\* keys have both completed, the stored preferences contain both changes.
C30_NoLostUpdate ==
  LET a == prefs.calls[1]
      b == prefs.calls[2]
  IN (/\ a.pc = "done" /\ a.outcome = "resolved" /\ a.op = "updatePreferences"
      /\ b.pc = "done" /\ b.outcome = "resolved" /\ b.op = "updatePreferences"
      /\ a.changes # b.changes
      /\ a.overlapped \/ b.overlapped)
     => /\ prefs.stored.present
        /\ prefs.stored.value = UpdateUpdated(UpdateUpdated(prefs.stored.value, a.changes),
                                              b.changes)

====
